---------------------------- MODULE Spec2Model ----------------------------
(*************************************************************************)
(* The audio render/command thread of osmp (src-tauri/src/audio.rs):      *)
(* the thread's loop over recv_timeout, the handlers of every             *)
(* AudioCommand, the position update and the end-of-track check,          *)
(* together with the shared atomics other threads read, and the          *)
(* equalizer stage of src-tauri/src/equalizer.rs that the output thread   *)
(* pulls the samples through.                                             *)
(*                                                                         *)
(* The render thread is the only writer of the three atomics.  Each of    *)
(* its actions holds at most one store to them (and at most one change    *)
(* of the set of live sinks), in program order, so that a reader on       *)
(* another thread sees every intermediate value the code produces.  The   *)
(* position of the thread is pc; a handler cannot be left half way: the   *)
(* only action enabled at a pc is the handler's next step.                *)
(*                                                                         *)
(* The lock of the settings can be poisoned by a thread outside this      *)
(* module; the soft clip of next() is also given on its own.  The track   *)
(* and playlist functions of src-tauri/src/database.rs run one at a time  *)
(* under the database's mutex, on tables as init_schema declares them.    *)
(*                                                                         *)
(* The library scan (commands.rs, background_scan.rs, scanner.rs) has its *)
(* callers compete for scan_running and one scanner at a time walk the    *)
(* folders, with cancel_scan from any thread.  The toggles that report to *)
(* the OS media controls (commands.rs, lib.rs) read the state, send a     *)
(* Pause through the channel and report.                                  *)
(*************************************************************************)
EXTENDS Integers, Sequences, FiniteSets, TLC

----------------------------------------------------------------------------
(* Bounds of the model *)

\* The clock runs from 0 to MaxTime milliseconds.
MaxTime == 2
\* SETTINGS_VERSION is an AtomicU64; no EQ command is taken once it is here.
MaxVersion == 1
\* The channel is unbounded; no command is sent while it holds this many.
MaxQueue == 1
\* The output thread pulls at most MaxPulls samples through one stage.
MaxPulls == 3
\* With the equalizer's own commands, the audio thread receives at most
\* MaxEqVersion commands that bump SETTINGS_VERSION.
MaxEqVersion == 2
\* A walk of the enabled scan folders finds at most MaxFiles audio files.
MaxFiles == 2
\* At most MaxScans scans are requested.
MaxScans == 2
\* In the specification of the visualizer the output thread pulls at most
\* MaxVisPulls samples through one stage.
MaxVisPulls == 5
\* No track is inserted once the AUTOINCREMENT sequence of tracks is at
\* MaxTrackSeq, no playlist created once that of playlists is at
\* MaxPlaylistSeq.
MaxTrackSeq == 3
MaxPlaylistSeq == 2
\* The values that reach the soft clip lie within MaxClip thousandths of 0.
MaxClip == 3000

----------------------------------------------------------------------------
(* Inputs *)

Paths == {"A", "B"}

\* Seek(f64 seconds): the argument is written in microseconds, so that
\* 1500 stands for 0.0015 s.  A negative number stands for the arguments
\* Duration::from_secs_f64 panics on: negative, NaN, infinite.
SeekArgs == {-1000, 1500}

\* SetVolume(f32) in percent, SetSpeed(f32) in hundredths.
VolumeArgs == {50, 150}
SpeedArgs == {500}

None == << >>
Some(x) == << x >>

Cmd(t, p, n) == [type |-> t, path |-> p, n |-> n]

\* AudioCommand.  Of the four EQ commands the audio thread gets
\* SetEqEnabled here; EqCommands below has all four.
Commands ==
    {Cmd("Play", p, 0) : p \in Paths}
    \cup {Cmd("Pause", "", 0), Cmd("Stop", "", 0)}
    \cup {Cmd("SetVolume", "", v) : v \in VolumeArgs}
    \cup {Cmd("Seek", "", us) : us \in SeekArgs}
    \cup {Cmd("SetSpeed", "", s) : s \in SpeedArgs}
    \cup {Cmd("PreloadNext", p, 0) : p \in Paths}
    \cup {Cmd("SetEqEnabled", "", b) : b \in {0, 1}}

\* What recv_timeout yields when no command arrives within 100 ms.
Timeout == Cmd("Timeout", "", 0)

----------------------------------------------------------------------------
VARIABLES
    \* locals of the audio thread
    pc, cmd, current_sink, playback_start, paused_position_ms,
    current_volume, current_speed, preloaded_path,
    \* AudioState
    is_playing, is_paused, position_ms,
    \* EqualizerSettings (enabled, the gains of the five bands and the
    \* preamp in hundredths of a dB, the preset name), whether the render
    \* thread holds its write lock, and SETTINGS_VERSION
    eq_enabled, eq_bands, eq_preamp_db, eq_preset_name, eq_lock,
    settings_version,
    \* environment: the clock (Instant::now) and the sinks that can sound
    now, live_sinks,
    \* a thread inside AudioState::is_playing()
    rd_pc, rd_first, rd_result,
    \* history of the current loop iteration: the arm the handler took and
    \* what the end-of-track check did
    arm, fin,
    \* history across iterations: the previously handled command, whether
    \* no Play has succeeded since the last Stop, the target of a Seek
    \* handled while the sink was paused and not yet followed by a command
    prev, stopped, seek_hold,
    \* history of the reader's call: whether the state has been Playing
    rd_saw,
    \* the command channel: the commands sent and not yet received, and the
    \* last call of a command-submission function with what it returned
    queue, sent,
    \* the output thread: what the last call of EqualizerSource::next()
    \* pulled and emitted, and VIS_LEVELS
    out, vis_levels,
    \* history of the EQ commands: the SetEqBand handled last and the
    \* number of times it has been handled in a row, if no other EQ command
    \* has been handled since
    eq_prev,
    \* the database (DatabaseInner behind its mutex): its tables, and the
    \* last call of one of its functions with what it returned
    database, db_call,
    \* a value on its way through the soft clip of next()
    clip,
    \* the library scan: AppState's scan_running and scan_cancelled,
    \* whether the mutex of the Database is poisoned, every caller of a
    \* scan with its position and the locals of scan_with_progress, and the
    \* number of scans requested
    scan_running, scan_cancelled, db_poisoned, scanner, scan_calls,
    \* a toggle on its way from pause_playback or the media-control event
    \* handler to the OS media controls
    media

localVars == << pc, cmd, current_sink, playback_start, paused_position_ms,
                current_volume, current_speed, preloaded_path >>
atomVars == << is_playing, is_paused, position_ms >>
settingsVars == << eq_enabled, eq_bands, eq_preamp_db, eq_preset_name >>
eqVars == << settingsVars, eq_lock, settings_version >>
envVars == << now, live_sinks >>
rdRegs == << rd_pc, rd_first, rd_result >>
rdVars == << rdRegs, rd_saw >>
chanVars == << queue, sent >>
outVars == << out, vis_levels >>
dbVars == << database, db_call >>
scanVars == << scan_running, scan_cancelled, db_poisoned, scanner, scan_calls >>
sideVars == << eq_prev, dbVars, clip, scanVars, media >>
iterVars == << arm, fin >>
histVars == << iterVars, prev, stopped, seek_hold >>

vars == << localVars, atomVars, eqVars, envVars, rdVars, histVars,
          chanVars, outVars, sideVars >>

----------------------------------------------------------------------------
(* Arithmetic of the equalizer *)

\* Decibels are whole hundredths of a dB; samples, coefficients, filter
\* memory and linear gains are f32/f64 numbers kept in thousandths,
\* rounded to the nearest thousandth after every multiplication.
One == 1000

Abs(x) == IF x < 0 THEN -x ELSE x

\* a / b rounded to the nearest integer, for b > 0
RoundDiv(a, b) == (2 * a + b) \div (2 * b)

\* a * b and a / b in thousandths
Mul(a, b) == RoundDiv(a * b, One)
Div(a, b) == IF b > 0 THEN RoundDiv(a * One, b) ELSE -RoundDiv(a * One, -b)

\* f64::sqrt, by Newton's iteration
RECURSIVE Newton(_, _)
Newton(n, r) ==
    LET next == (r + n \div r) \div 2
    IN IF next >= r THEN r ELSE Newton(n, next)
Sqrt(x) == IF x <= 0 THEN 0 ELSE Newton(x * One, x * One)

Ln2 == 693
Ln10 == 2303
Pi == 3142

RECURSIVE Scaled(_, _)
Scaled(x, k) ==
    IF k = 0 THEN x
    ELSE IF k > 0 THEN Scaled(2 * x, k - 1)
    ELSE Scaled(RoundDiv(x, 2), k + 1)

\* f64::exp: exp(r) by its series for r in [0, ln 2), doubled or halved
\* once for every ln 2 in x - r.
Exp(x) ==
    LET k == x \div Ln2
        r == x - k * Ln2
        r2 == Mul(r, r)
        r3 == Mul(r2, r)
        r4 == Mul(r3, r)
        r5 == Mul(r4, r)
        series == One + r + RoundDiv(r2, 2) + RoundDiv(r3, 6)
                      + RoundDiv(r4, 24) + RoundDiv(r5, 120)
    IN Scaled(series, k)

\* 10.0_f64.powf(db / div) for db in hundredths of a dB
PowTen(db, div) == Exp(RoundDiv(db * Ln10, 100 * div))

\* f64::sin and f64::cos by their series, for x in [-pi, pi) folded into
\* [-pi/2, pi/2]
SinSeries(x) ==
    LET x2 == Mul(x, x)
        t3 == Mul(x, x2)
        t5 == Mul(t3, x2)
        t7 == Mul(t5, x2)
        t9 == Mul(t7, x2)
    IN x - RoundDiv(t3, 6) + RoundDiv(t5, 120) - RoundDiv(t7, 5040)
         + RoundDiv(t9, 362880)
CosSeries(x) ==
    LET x2 == Mul(x, x)
        t4 == Mul(x2, x2)
        t6 == Mul(t4, x2)
        t8 == Mul(t6, x2)
        t10 == Mul(t8, x2)
    IN One - RoundDiv(x2, 2) + RoundDiv(t4, 24) - RoundDiv(t6, 720)
         + RoundDiv(t8, 40320) - RoundDiv(t10, 3628800)
Sin(x) ==
    IF 2 * x > Pi THEN SinSeries(Pi - x)
    ELSE IF 2 * x < -Pi THEN SinSeries(-Pi - x)
    ELSE SinSeries(x)
Cos(x) ==
    IF 2 * Abs(x) > Pi THEN -CosSeries(Pi - Abs(x)) ELSE CosSeries(x)

\* w0 = 2 pi freq / sample_rate, brought into [-pi, pi)
Omega(freq, sr) ==
    LET turn == freq % sr
        w == RoundDiv(2 * Pi * turn, sr)
    IN IF 2 * turn >= sr THEN w - 2 * Pi ELSE w

----------------------------------------------------------------------------
(* The equalizer: settings, coefficients, the stage *)

\* source.sample_rate(), in Hz: a file is decoded at SampleRate, the file
\* C at LowSampleRate.
SampleRate == 100
LowSampleRate == 65
SampleRateOf(path) == IF path = "C" THEN LowSampleRate ELSE SampleRate

\* source.channels(): file B is mono, the others are stereo.
ChannelsOf(path) == IF path = "B" THEN 1 ELSE 2

\* EqualizerSettings::default(): frequency in Hz, q in thousandths and
\* filter type of the five bands; every gain is 0 dB.
BandFrequency == << 60, 250, 1000, 4000, 16000 >>
BandQ == << 707, 1000, 1000, 1000, 707 >>
BandType == << "LowShelf", "Peaking", "Peaking", "Peaking", "HighShelf" >>
Bands == 1..5
FlatGains == [i \in Bands |-> 0]

\* VIS_FREQUENCIES, in Hz, and the q of the analysis filters
VIS_BAND_COUNT == 10
VIS_FREQUENCIES ==
    << 32, 64, 125, 250, 500, 1000, 2000, 4000, 8000, 16000 >>
VisBands == 1..VIS_BAND_COUNT
VisQ == 1400

Coeffs(b0, b1, b2, a0, a1, a2) ==
    [b0 |-> Div(b0, a0), b1 |-> Div(b1, a0), b2 |-> Div(b2, a0),
     a1 |-> Div(a1, a0), a2 |-> Div(a2, a0)]

\* BiquadCoeffs::compute for band i with the gain gain_db
BiquadCompute(i, gain_db, sample_rate) ==
    LET a == PowTen(gain_db, 40)
        w0 == Omega(BandFrequency[i], sample_rate)
        cos_w0 == Cos(w0)
        sin_w0 == Sin(w0)
        alpha == Div(sin_w0, 2 * BandQ[i])
        two_sqrt_a_alpha == 2 * Mul(Sqrt(a), alpha)
    IN CASE BandType[i] = "LowShelf" ->
              Coeffs(Mul(a, (a + One) - Mul(a - One, cos_w0) + two_sqrt_a_alpha),
                     2 * Mul(a, (a - One) - Mul(a + One, cos_w0)),
                     Mul(a, (a + One) - Mul(a - One, cos_w0) - two_sqrt_a_alpha),
                     (a + One) + Mul(a - One, cos_w0) + two_sqrt_a_alpha,
                     -2 * ((a - One) + Mul(a + One, cos_w0)),
                     (a + One) + Mul(a - One, cos_w0) - two_sqrt_a_alpha)
         [] BandType[i] = "Peaking" ->
              Coeffs(One + Mul(alpha, a),
                     -2 * cos_w0,
                     One - Mul(alpha, a),
                     One + Div(alpha, a),
                     -2 * cos_w0,
                     One - Div(alpha, a))
         [] BandType[i] = "HighShelf" ->
              Coeffs(Mul(a, (a + One) + Mul(a - One, cos_w0) + two_sqrt_a_alpha),
                     -2 * Mul(a, (a - One) + Mul(a + One, cos_w0)),
                     Mul(a, (a + One) + Mul(a - One, cos_w0) - two_sqrt_a_alpha),
                     (a + One) - Mul(a - One, cos_w0) + two_sqrt_a_alpha,
                     2 * ((a - One) - Mul(a + One, cos_w0)),
                     (a + One) - Mul(a - One, cos_w0) - two_sqrt_a_alpha)

\* BiquadCoeffs::identity
Identity == [b0 |-> One, b1 |-> 0, b2 |-> 0, a1 |-> 0, a2 |-> 0]

\* BiquadCoeffs::bandpass
Bandpass(freq, q, sample_rate) ==
    LET w0 == Omega(freq, sample_rate)
        cos_w0 == Cos(w0)
        sin_w0 == Sin(w0)
        alpha == Div(sin_w0, 2 * q)
    IN Coeffs(alpha, 0, -alpha, One + alpha, -2 * cos_w0, One - alpha)

\* BiquadState::default
BiquadZero == [x1 |-> 0, x2 |-> 0, y1 |-> 0, y2 |-> 0]

\* BiquadState::process: the output and the state it leaves
Process(state, coeffs, input) ==
    LET output == Mul(coeffs.b0, input) + Mul(coeffs.b1, state.x1)
                    + Mul(coeffs.b2, state.x2) - Mul(coeffs.a1, state.y1)
                    - Mul(coeffs.a2, state.y2)
    IN [output |-> output,
        state |-> [x1 |-> input, x2 |-> state.x1,
                   y1 |-> output, y2 |-> state.y1]]

\* The five filters in series on one channel, from band i on
RECURSIVE Series(_, _, _, _)
Series(states, coeffs, value, i) ==
    IF i > 5 THEN [states |-> states, value |-> value]
    ELSE LET r == Process(states[i], coeffs[i], value)
         IN Series([states EXCEPT ![i] = r.state], coeffs, r.output, i + 1)

\* The soft clip at the end of next()
SoftClip(value) ==
    IF value > One THEN One - RoundDiv(Exp(-value + One), 2)
    ELSE IF value < -One THEN -One + RoundDiv(Exp(value + One), 2)
    ELSE value

\* EqualizerSource::db_to_linear
DbToLinear(db) == PowTen(db, 20)

\* The memory of the five band filters on both channels, and of the
\* analysis filters (only channel 0 is analysed)
StatesZero == [ch \in 1..2 |-> [i \in Bands |-> BiquadZero]]
VisStatesZero == [i \in VisBands |-> BiquadZero]
VisEnergyZero == [i \in VisBands |-> 0]

\* EqualizerSource::compute_coefficients on the settings as they are
ComputeCoefficients(sample_rate) ==
    [i \in Bands |->
        IF eq_enabled /\ Abs(eq_bands[i]) > 1
        THEN BiquadCompute(i, eq_bands[i], sample_rate)
        ELSE Identity]

\* EqualizerSource::new on a source decoded from path
NewStage(path) ==
    [coeffs |-> ComputeCoefficients(SampleRateOf(path)),
     states |-> StatesZero,
     channels |-> ChannelsOf(path),
     sample_rate |-> SampleRateOf(path),
     current_channel |-> 0,
     preamp_linear |-> DbToLinear(eq_preamp_db),
     last_checked_version |-> settings_version,
     vis_coeffs |-> [i \in VisBands |->
                       IF 2 * VIS_FREQUENCIES[i] < SampleRateOf(path)
                       THEN Bandpass(VIS_FREQUENCIES[i], VisQ,
                                     SampleRateOf(path))
                       ELSE Identity],
     vis_states |-> VisStatesZero,
     vis_energy |-> VisEnergyZero,
     vis_sample_count |-> 0,
     vis_window_size |-> (SampleRateOf(path) * 46) \div 1000]

\* maybe_update_coefficients: whether the version has moved
VersionDiffers(stage) == settings_version # stage.last_checked_version

\* maybe_update_coefficients, under the read lock
RefreshedCoeffsOnly(stage) ==
    [stage EXCEPT !.coeffs = ComputeCoefficients(stage.sample_rate),
                  !.states = IF ~eq_enabled THEN StatesZero ELSE @]
Refreshed(stage) ==
    [stage EXCEPT !.coeffs = ComputeCoefficients(stage.sample_rate),
                  !.preamp_linear = DbToLinear(eq_preamp_db),
                  !.states = IF ~eq_enabled THEN StatesZero ELSE @]

\* The visualizer analysis of next() on a sample of channel ch: the stage
\* it leaves and the levels it publishes, if any.  The outputs of the
\* analysis filters and the energies are sequences over the bands.
AnalysedEveryChannel(stage, ch, sample) ==
    LET r == [i \in VisBands |->
                Process(stage.vis_states[i], stage.vis_coeffs[i], sample)]
               \o << >>
        energy == [i \in VisBands |->
                     stage.vis_energy[i] + Mul(r[i].output, r[i].output)]
               \o << >>
        count == stage.vis_sample_count + 1
        inv_count == RoundDiv(One, count)
        level == [i \in VisBands |->
                    LET rms == Sqrt(Mul(energy[i], inv_count))
                    IN IF 8 * rms < One THEN 8 * rms ELSE One]
        full == count >= stage.vis_window_size
    IN [stage |-> [stage EXCEPT
                     !.vis_states = [i \in VisBands |-> r[i].state],
                     !.vis_energy = IF full THEN VisEnergyZero ELSE energy,
                     !.vis_sample_count = IF full THEN 0 ELSE count],
        levels |-> IF full THEN Some(level) ELSE None]
Analysed(stage, ch, sample) ==
    IF ch # 0 THEN [stage |-> stage, levels |-> None]
    ELSE
    LET r == [i \in VisBands |->
                Process(stage.vis_states[i], stage.vis_coeffs[i], sample)]
               \o << >>
        energy == [i \in VisBands |->
                     stage.vis_energy[i] + Mul(r[i].output, r[i].output)]
               \o << >>
        count == stage.vis_sample_count + 1
        inv_count == RoundDiv(One, count)
        level == [i \in VisBands |->
                    LET rms == Sqrt(Mul(energy[i], inv_count))
                    IN IF 8 * rms < One THEN 8 * rms ELSE One]
        full == count >= stage.vis_window_size
    IN [stage |-> [stage EXCEPT
                     !.vis_states = [i \in VisBands |-> r[i].state],
                     !.vis_energy = IF full THEN VisEnergyZero ELSE energy,
                     !.vis_sample_count = IF full THEN 0 ELSE count],
        levels |-> IF full THEN Some(level) ELSE None]

\* The EQ processing of next() on a sample of channel ch, with the
\* enabled flag it reads under the lock: preamp, the five filters, the
\* soft clip; a disabled equalizer returns the sample.
EmitNoPreamp(stage, ch, sample) ==
    LET channel_idx == IF ch < 1 THEN 1 ELSE 2
        r == Series(stage.states[channel_idx], stage.coeffs, sample, 1)
    IN [stage |-> [stage EXCEPT !.states[channel_idx] = r.states],
        value |-> SoftClip(r.value)]
EmitFiltered(stage, ch, sample) ==
    LET channel_idx == IF ch < 1 THEN 1 ELSE 2
        r == Series(stage.states[channel_idx], stage.coeffs,
                    Mul(sample, stage.preamp_linear), 1)
    IN [stage |-> [stage EXCEPT !.states[channel_idx] = r.states],
        value |-> SoftClip(r.value)]
EmitPreamp(stage, ch, sample, enabled) ==
    IF ~enabled
    THEN [stage |-> stage, value |-> Mul(sample, stage.preamp_linear)]
    ELSE EmitFiltered(stage, ch, sample)
Emit(stage, ch, sample, enabled) ==
    IF ~enabled THEN [stage |-> stage, value |-> sample]
    ELSE EmitFiltered(stage, ch, sample)

\* next() from the pull of the sample on: the channel counter moves, the
\* sample is analysed and emitted.
Pulled(stage, sample, enabled) ==
    LET ch == stage.current_channel
        moved == [stage EXCEPT
                    !.current_channel = (ch + 1) % stage.channels]
        a == Analysed(moved, ch, sample)
        e == Emit(a.stage, ch, sample, enabled)
    IN [stage |-> e.stage, value |-> e.value, levels |-> a.levels]

\* EqualizerSource::try_seek: the inner source's try_seek returns ok; an
\* error is returned at once.
TrySeekKeepsMemory(stage, ok) ==
    IF ~ok THEN stage
    ELSE [stage EXCEPT !.current_channel = 0,
                       !.vis_states = VisStatesZero,
                       !.vis_energy = VisEnergyZero,
                       !.vis_sample_count = 0]
TrySeek(stage, ok) ==
    IF ~ok THEN stage
    ELSE [stage EXCEPT !.states = StatesZero,
                       !.current_channel = 0,
                       !.vis_states = VisStatesZero,
                       !.vis_energy = VisEnergyZero,
                       !.vis_sample_count = 0]

\* The output thread outside next()
IdleCall == [pc |-> "idle", refresh |-> FALSE, locks |-> 0]
----------------------------------------------------------------------------
(* The database *)

\* init_schema on a new file: the tables tracks, playlists and
\* playlist_tracks are empty and no id has been given out.
EmptyDb ==
    [tracks |-> << >>, playlists |-> << >>, playlist_tracks |-> {},
     track_seq |-> 0, playlist_seq |-> 0]

----------------------------------------------------------------------------
(* The library scan (src-tauri/src/commands.rs, background_scan.rs,       *)
(* scanner.rs)                                                            *)

\* The callers of a scan: two invocations of the command scan_folders and
\* the background scanner.
ScanCallers == {"scan_folders", "scan_folders_2", "run_background_scan"}
IsBackground(c) == c = "run_background_scan"

\* BATCH_SIZE (100), scaled down to the walks of the model.
BATCH_SIZE == 2

\* The audio files a walk of the enabled folders meets, in its order.
AudioFiles == << "A", "B", "C", "D", "E" >>

\* A caller between two scans.  While it scans it keeps the files of the
\* walk, the locals of scan_with_progress (files, existing_files, index,
\* the three counters, batch), what it returns, and as history the
\* category each processed file was counted in and the phase in which a
\* cancel_scan first arrived.
NotScanning ==
    [pc |-> "idle", walk |-> << >>, files |-> << >>, existing_files |-> {},
     index |-> 0, scanned_count |-> 0, skipped_count |-> 0,
     error_count |-> 0, batch |-> << >>, tally |-> << >>,
     cancel_at |-> "none", result |-> None]

\* Ok(ScanResult {..}) of a scanner r, and an Err.
ScanResult(r, cancelled) ==
    [ok |-> TRUE, total_files |-> Len(r.files), scanned |-> r.scanned_count,
     skipped |-> r.skipped_count, errors |-> r.error_count,
     cancelled |-> cancelled]
ScanErr ==
    [ok |-> FALSE, total_files |-> 0, scanned |-> 0, skipped |-> 0,
     errors |-> 0, cancelled |-> FALSE]

----------------------------------------------------------------------------
(* Helpers *)

\* f32::clamp(lo, hi)
Clamp(x, lo, hi) == IF x < lo THEN lo ELSE IF x > hi THEN hi ELSE x

\* (position_secs * 1000.0) as u64, for an argument in microseconds: the
\* cast truncates toward zero and takes negative numbers and NaN to 0.
SeekMs(us) == IF us < 0 THEN 0 ELSE us \div 1000

\* start.elapsed().as_millis() as u64
Elapsed(start) == now - start

HasSink == current_sink # None
Sink == current_sink[1]

\* Sink::empty(): no source is left in the sink's queue.
SinkEmpty == Sink.queued = 0

\* Sink::connect_new + set_volume + set_speed + append + play.  A sink is
\* the path of the source appended last, the number of sources it has not
\* played to the end, its paused flag, volume and speed, and the equalizer
\* stage that wraps its current source (eq) with the output thread's call
\* of next() on it (call).  History: the number of samples pulled through
\* the stage (fed) and, once a seek has succeeded on a stage that had
\* been pulled from, a stage constructed at that moment with the stage's
\* coefficients, preamp and checked version, and called with the same
\* samples since (cold).
NewSink(path) ==
    [path |-> path, queued |-> 1, paused |-> FALSE,
     volume |-> current_volume, speed |-> current_speed,
     eq |-> NewStage(path), call |-> IdleCall, fed |-> 0, cold |-> None]

\* sink.append(eq_source), on a sink that has played its sources to the
\* end: the stage of the appended source is the one pulled from next.
Appended(sink, path) ==
    [sink EXCEPT !.path = path, !.queued = @ + 1,
                 !.eq = NewStage(path), !.call = IdleCall, !.fed = 0,
                 !.cold = None]

\* The state derived from the two flags.
Playing == is_playing /\ ~is_paused
Paused == is_playing /\ is_paused
Idle == ~is_playing

\* What a handler leaves in arm: the arm taken and, for a Pause, the
\* is_paused flag it found, the time it ran at and the offset it left in
\* paused_position_ms.
Arm(name) == [name |-> name, was_paused |-> FALSE, at |-> 0, offset |-> 0]
PauseArm(name, offset) ==
    [name |-> name, was_paused |-> is_paused, at |-> now, offset |-> offset]
NoArm == Arm("none")

\* What seek_hold keeps: the target in milliseconds, whether a Pause has
\* resumed the sink since, and when.
Hold(ms) == [ms |-> ms, resumed |-> FALSE, at |-> 0]

\* The previously handled command, kept for a Pause and a successful Play;
\* the time and the offset are kept for a Pause that paused.
PrevOf(a) ==
    IF a.name = "paused" THEN a
    ELSE IF a.name \in {"resumed", "pause_no_sink", "play_ok"}
    THEN [a EXCEPT !.at = 0, !.offset = 0]
    ELSE NoArm


----------------------------------------------------------------------------
Init ==
    /\ pc = "init"
    /\ cmd = Timeout
    /\ current_sink = None
    /\ playback_start = None
    /\ paused_position_ms = 0
    /\ current_volume = 100
    /\ current_speed = 100
    /\ preloaded_path = None
    /\ is_playing = FALSE
    /\ is_paused = FALSE
    /\ position_ms = 0
    /\ eq_enabled = TRUE
    /\ eq_bands = FlatGains
    /\ eq_preamp_db = 0
    /\ eq_preset_name = "Flat"
    /\ eq_lock = "free"
    /\ settings_version = 0
    /\ now = 0
    /\ live_sinks = 0
    /\ rd_pc = "idle"
    /\ rd_first = FALSE
    /\ rd_result = FALSE
    /\ arm = NoArm
    /\ fin = "none"
    /\ prev = NoArm
    /\ stopped = FALSE
    /\ seek_hold = None
    /\ rd_saw = FALSE
    /\ queue = << >>
    /\ sent = None
    /\ out = None
    /\ vis_levels = [i \in VisBands |-> 0]
    /\ eq_prev = None
    /\ database = EmptyDb
    /\ db_call = None
    /\ clip = None
    /\ scan_running = FALSE
    /\ scan_cancelled = FALSE
    /\ db_poisoned = FALSE
    /\ scanner = [c \in ScanCallers |-> NotScanning]
    /\ scan_calls = 0
    /\ media = None

----------------------------------------------------------------------------
(* The environment *)

\* A millisecond passes.
Tick ==
    /\ now < MaxTime
    /\ now' = now + 1
    /\ UNCHANGED << localVars, atomVars, eqVars, live_sinks,
                    rdVars, histVars,
                    chanVars, outVars, sideVars >>

\* The output thread pulls the last sample of the sink's current source;
\* a paused sink is not pulled from.
SourceEnds ==
    /\ HasSink
    /\ ~Sink.paused
    /\ ~SinkEmpty
    /\ current_sink' = Some([Sink EXCEPT !.queued = @ - 1,
                                          !.call = IdleCall])
    /\ UNCHANGED << pc, cmd, playback_start, paused_position_ms,
                    current_volume, current_speed, preloaded_path,
                    atomVars, eqVars, envVars, rdVars, histVars,
                    chanVars, outVars, sideVars >>

----------------------------------------------------------------------------
(* The audio thread: the output device *)

\* OutputStreamBuilder::open_default_stream() returns Ok: the thread
\* enters its loop.
DeviceInitOk ==
    /\ pc = "init"
    /\ pc' = "recv"
    /\ UNCHANGED << cmd, current_sink, playback_start, paused_position_ms,
                    current_volume, current_speed, preloaded_path,
                    atomVars, eqVars, envVars, rdVars, histVars,
                    chanVars, outVars, sideVars >>

\* open_default_stream() returns Err: the error is logged and the thread
\* returns.
DeviceInitFail ==
    /\ pc = "init"
    /\ pc' = "init_failed"
    /\ UNCHANGED << cmd, current_sink, playback_start, paused_position_ms,
                    current_volume, current_speed, preloaded_path,
                    atomVars, eqVars, envVars, rdVars, histVars,
                    chanVars, outVars, sideVars >>

\* The thread has left its closure: the receiver is dropped.
Terminated == pc \in {"init_failed", "exited", "panicked"}

----------------------------------------------------------------------------
(* The audio thread: receiving *)

Entry(c) ==
    CASE c.type = "Play" -> "play_stop"
      [] c.type = "Pause" -> "pause"
      [] c.type = "Stop" -> "stop"
      [] c.type = "SetVolume" -> "set_volume"
      [] c.type = "Seek" -> "seek"
      [] c.type = "SetSpeed" -> "set_speed"
      [] c.type = "PreloadNext" -> "preload"
      [] c.type = "SetEqEnabled" -> "set_eq_enabled"
      [] c.type = "SetEqBand" -> "set_eq_band"
      [] c.type = "SetEqPreset" -> "set_eq_preset"
      [] c.type = "SetEqPreamp" -> "set_eq_preamp"
      [] OTHER -> "update"

\* The commands that end with bump_settings_version()
IsEqCommand(c) ==
    c.type \in {"SetEqBand", "SetEqEnabled", "SetEqPreset", "SetEqPreamp"}

\* receiver.recv_timeout(100 ms) returns Ok(cmd): c is the command a
\* sender (AudioController::play_file, pause, stop, ...) has put first in
\* the channel.
Receive(c, limit) ==
    /\ pc = "recv"
    /\ IsEqCommand(c) => settings_version < limit
    /\ cmd' = c
    /\ pc' = Entry(c)
    /\ UNCHANGED << current_sink, playback_start, paused_position_ms,
                    current_volume, current_speed, preloaded_path,
                    atomVars, eqVars, envVars, rdVars, histVars,
                    chanVars, outVars, sideVars >>

RecvCmd(c) == Receive(c, MaxVersion)

\* receiver.recv_timeout(100 ms) returns Err(Timeout)
RecvTimeout ==
    /\ pc = "recv"
    /\ queue = << >>
    /\ cmd' = Timeout
    /\ pc' = "update"
    /\ UNCHANGED << current_sink, playback_start,
                    paused_position_ms, current_volume, current_speed,
                    preloaded_path, atomVars, eqVars, envVars, rdVars,
                    histVars,
                    chanVars, outVars, sideVars >>

\* receiver.recv_timeout(100 ms) returns Err(Disconnected): every sender
\* is dropped and the channel is empty.  The loop breaks and the closure
\* ends, which drops the sink.
RecvDisconnected ==
    /\ pc = "recv"
    /\ queue = << >>
    /\ pc' = "exited"
    /\ cmd' = Timeout
    /\ current_sink' = None
    /\ live_sinks' = IF HasSink THEN live_sinks - 1 ELSE live_sinks
    /\ seek_hold' = None
    /\ UNCHANGED << playback_start, paused_position_ms, current_volume,
                    current_speed, preloaded_path, atomVars, eqVars, now,
                    rdVars, iterVars, prev, stopped,
                    chanVars, outVars, sideVars >>

----------------------------------------------------------------------------
(* The command channel: AudioController's submission functions and the   *)
(* receiving end                                                          *)

\* The commands the submission functions send, one for each of play_file,
\* pause, stop, set_volume, seek, set_speed, preload_next, set_eq_enabled.
Submitted ==
    {Cmd("Play", "A", 0), Cmd("Pause", "", 0), Cmd("Stop", "", 0),
     Cmd("SetVolume", "", 50), Cmd("Seek", "", -1000),
     Cmd("SetSpeed", "", 500), Cmd("PreloadNext", "B", 0),
     Cmd("SetEqEnabled", "", 0)}

\* Sender::send returns Err(SendError) when the receiver is dropped.
SendFails == Terminated

\* Returned with every submission function passing the error on.
ReturnedAll(c) == IF SendFails THEN "err" ELSE "ok"

\* What the submission function gives back to its caller: play_file
\* passes the error of send on (.context(..)?), the others drop it
\* (let _ = ..).
Returned(c) == IF c.type = "Play" /\ SendFails THEN "err" ELSE "ok"

\* The number of commands of a type in the channel.
Pending(type) == Cardinality({i \in DOMAIN queue : queue[i].type = type})

\* A call of the submission function for c, from any thread.  sent keeps
\* the command's type, what the call returned and whether the thread had
\* terminated.
Submit(c) ==
    /\ Len(queue) < MaxQueue
    /\ c.type = "SetEqEnabled" => settings_version + Pending(c.type) < MaxVersion
    /\ queue' = IF SendFails THEN queue ELSE Append(queue, c)
    /\ sent' = Some([type |-> c.type, result |-> Returned(c),
                     dead |-> Terminated])
    /\ UNCHANGED << localVars, atomVars, eqVars, envVars, rdVars, histVars,
                    outVars, sideVars >>

\* receiver.recv_timeout(100 ms) returns Ok(cmd): the command at the head
\* of the channel.
RecvQueued ==
    /\ pc = "recv"
    /\ queue # << >>
    /\ cmd' = Head(queue)
    /\ queue' = Tail(queue)
    /\ pc' = Entry(cmd')
    /\ UNCHANGED << current_sink, playback_start, paused_position_ms,
                    current_volume, current_speed, preloaded_path,
                    atomVars, eqVars, envVars, rdVars, histVars, sent,
                    outVars, sideVars >>

----------------------------------------------------------------------------
(* The toggles that report to the OS media controls: the command          *)
(* pause_playback (src-tauri/src/commands.rs) and the media-control event *)
(* handler (src-tauri/src/lib.rs)                                         *)

\* The Pause such a toggle sends.  AudioCommand::Pause has no argument; the
\* number tells it from the Pause of other senders.
MediaPause == Cmd("Pause", "", 1)

\* pause_playback, and the events the handler toggles on.
MediaEvents == {"pause_playback", "Play", "Pause", "PlayPause"}

\* Play: only if not playing; Pause: only if playing; PlayPause and
\* pause_playback: always.
ShouldToggle(event, was_playing) ==
    CASE event = "Play" -> ~was_playing
      [] event = "Pause" -> was_playing
      [] OTHER -> TRUE

\* The Pause of the toggle is in the channel or with its handler.
MediaPending ==
    \/ \E i \in DOMAIN queue : queue[i] = MediaPause
    \/ pc = "pause" /\ cmd = MediaPause

\* was_playing = audio.state.is_playing(), read before anything is sent.
MediaRead(event) ==
    /\ IF media = None THEN TRUE
       ELSE media[1].stage = "sent" /\ ~MediaPending
    /\ ShouldToggle(event, Playing)
    /\ media' = Some([event |-> event, was_playing |-> Playing,
                      stage |-> "read", new_is_playing |-> FALSE])
    /\ UNCHANGED << localVars, atomVars, eqVars, envVars, rdVars, histVars,
                    chanVars, outVars, eq_prev, dbVars, clip, scanVars >>

\* audio.pause() sends the Pause, and update_playback_state is called with
\* the opposite of was_playing.
MediaSend ==
    /\ media # None
    /\ media[1].stage = "read"
    /\ Len(queue) < MaxQueue
    /\ queue' = IF SendFails THEN queue ELSE Append(queue, MediaPause)
    /\ media' = Some([media[1] EXCEPT !.stage = "sent",
                                      !.new_is_playing = ~media[1].was_playing])
    /\ UNCHANGED << localVars, atomVars, eqVars, envVars, rdVars, histVars,
                    sent, outVars, eq_prev, dbVars, clip, scanVars >>

----------------------------------------------------------------------------
(* AudioCommand::Play(file_path) *)

\* PlayStopOld without sink.stop(): the old sink is let go while it sounds.
PlayKeepOld ==
    /\ pc = "play_stop"
    /\ current_sink' = None
    /\ seek_hold' = None
    /\ pc' = "play_open"
    /\ UNCHANGED << cmd, playback_start, paused_position_ms, current_volume,
                    current_speed, preloaded_path, atomVars, eqVars, envVars,
                    rdVars, iterVars, prev, stopped,
                    chanVars, outVars, sideVars >>

\* if let Some(sink) = current_sink.take() { sink.stop(); }
\* and then File::open and Decoder::new succeed.
PlayStopOld ==
    /\ pc = "play_stop"
    /\ current_sink' = None
    /\ live_sinks' = IF HasSink THEN live_sinks - 1 ELSE live_sinks
    /\ seek_hold' = None
    /\ pc' = "play_open"
    /\ UNCHANGED << cmd, playback_start, paused_position_ms, current_volume,
                    current_speed, preloaded_path, atomVars, eqVars, now,
                    rdVars, iterVars, prev, stopped,
                    chanVars, outVars, sideVars >>

\* if let Some(sink) = current_sink.take() { sink.stop(); }
\* and then File::open or Decoder::new fails: the error is logged and
\* the match arm ends.
PlayFail ==
    /\ pc = "play_stop"
    /\ current_sink' = None
    /\ live_sinks' = IF HasSink THEN live_sinks - 1 ELSE live_sinks
    /\ seek_hold' = None
    /\ arm' = Arm("play_failed")
    /\ pc' = "update"
    /\ UNCHANGED << cmd, playback_start, paused_position_ms, current_volume,
                    current_speed, preloaded_path, atomVars, eqVars, now,
                    rdVars, fin, prev, stopped,
                    chanVars, outVars, sideVars >>

\* The new sink is connected, gets the source wrapped with the equalizer
\* and plays; the bookkeeping is reset.
PlayOpenOkKeepsStash ==
    /\ pc = "play_open"
    /\ eq_lock # "poisoned"
    /\ current_sink' = Some(NewSink(cmd.path))
    /\ live_sinks' = live_sinks + 1
    /\ playback_start' = Some(now)
    /\ paused_position_ms' = 0
    /\ arm' = Arm("play_ok")
    /\ stopped' = FALSE
    /\ pc' = "play_s1"
    /\ UNCHANGED << cmd, preloaded_path, current_volume, current_speed, atomVars, eqVars,
                    now, rdVars, fin, prev, seek_hold,
                    chanVars, outVars, sideVars >>
PlayOpenOk ==
    /\ pc = "play_open"
    /\ eq_lock # "poisoned"
    /\ current_sink' = Some(NewSink(cmd.path))
    /\ live_sinks' = live_sinks + 1
    /\ playback_start' = Some(now)
    /\ paused_position_ms' = 0
    /\ preloaded_path' = None
    /\ arm' = Arm("play_ok")
    /\ stopped' = FALSE
    /\ pc' = "play_s1"
    /\ UNCHANGED << cmd, current_volume, current_speed, atomVars, eqVars,
                    now, rdVars, fin, prev, seek_hold,
                    chanVars, outVars, sideVars >>

\* The lock of the settings is poisoned: settings.read().unwrap() in
\* EqualizerSource::new panics.  The thread unwinds, which drops the sink
\* just connected, and the atomics keep what they held.
PlayPanic ==
    /\ pc = "play_open"
    /\ eq_lock = "poisoned"
    /\ arm' = Arm("play_panicked")
    /\ pc' = "panicked"
    /\ UNCHANGED << cmd, current_sink, playback_start, paused_position_ms,
                    current_volume, current_speed, preloaded_path, atomVars,
                    eqVars, envVars, rdVars, fin, prev, stopped, seek_hold,
                    chanVars, outVars, sideVars >>

\* Whether the state has been Playing at some moment of the reader's call
\* in progress, after a step of the audio thread.
SawPlaying == rd_pc # "idle" /\ (rd_saw \/ (is_playing' /\ ~is_paused'))

\* thread_state.is_playing.store(true)
PlayS1 ==
    /\ pc = "play_s1"
    /\ is_playing' = TRUE
    /\ pc' = "play_s2"
    /\ UNCHANGED << cmd, current_sink, playback_start, paused_position_ms,
                    current_volume, current_speed, preloaded_path,
                    is_paused, position_ms, eqVars, envVars, rdRegs,
                    histVars,
                    chanVars, outVars, sideVars >>
    /\ rd_saw' = SawPlaying

\* PlayS2 without its store: is_paused keeps the value it had.
PlayS2Skip ==
    /\ pc = "play_s2"
    /\ pc' = "play_s3"
    /\ UNCHANGED << cmd, current_sink, playback_start, paused_position_ms,
                    current_volume, current_speed, preloaded_path,
                    atomVars, eqVars, envVars, rdRegs, histVars,
                    chanVars, outVars, sideVars >>
    /\ rd_saw' = SawPlaying

\* thread_state.is_paused.store(false)
PlayS2 ==
    /\ pc = "play_s2"
    /\ is_paused' = FALSE
    /\ pc' = "play_s3"
    /\ UNCHANGED << cmd, current_sink, playback_start, paused_position_ms,
                    current_volume, current_speed, preloaded_path,
                    is_playing, position_ms, eqVars, envVars, rdRegs,
                    histVars,
                    chanVars, outVars, sideVars >>
    /\ rd_saw' = SawPlaying

\* thread_state.position_ms.store(0)
PlayS3 ==
    /\ pc = "play_s3"
    /\ position_ms' = 0
    /\ pc' = "update"
    /\ UNCHANGED << cmd, current_sink, playback_start, paused_position_ms,
                    current_volume, current_speed, preloaded_path,
                    is_playing, is_paused, eqVars, envVars, rdVars,
                    histVars,
                    chanVars, outVars, sideVars >>

----------------------------------------------------------------------------
(* AudioCommand::Pause *)

\* PauseOffset without the elapsed time.
PauseOffsetStale == paused_position_ms

\* paused_position_ms += start.elapsed().as_millis()
PauseOffset ==
    IF playback_start # None
    THEN paused_position_ms + Elapsed(playback_start[1])
    ELSE paused_position_ms

\* ResumeStart without the new instant.
ResumeStartStale == playback_start

\* The instant the resume arm stores in playback_start.
ResumeStart == Some(now)

Pause ==
    /\ pc = "pause"
    /\ IF HasSink
       THEN IF Sink.paused
            THEN \* Resume
                 /\ playback_start' = ResumeStart
                 /\ current_sink' = Some([Sink EXCEPT !.paused = FALSE])
                 /\ is_paused' = FALSE
                 /\ arm' = PauseArm("resumed", paused_position_ms)
                 /\ UNCHANGED paused_position_ms
            ELSE \* Pause
                 /\ paused_position_ms' = PauseOffset
                 /\ current_sink' = Some([Sink EXCEPT !.paused = TRUE])
                 /\ is_paused' = TRUE
                 /\ arm' = PauseArm("paused", paused_position_ms')
                 /\ UNCHANGED playback_start
       ELSE /\ arm' = PauseArm("pause_no_sink", paused_position_ms)
            /\ UNCHANGED << current_sink, playback_start,
                            paused_position_ms, is_paused >>
    /\ seek_hold' = IF seek_hold # None /\ ~seek_hold[1].resumed
                         /\ arm'.name = "resumed"
                    THEN Some([seek_hold[1] EXCEPT !.resumed = TRUE,
                                                   !.at = now])
                    ELSE None
    /\ pc' = "update"
    /\ UNCHANGED << cmd, current_volume, current_speed, preloaded_path,
                    is_playing, position_ms, eqVars, envVars, rdRegs,
                    fin, prev, stopped,
                    chanVars, outVars, sideVars >>
    /\ rd_saw' = SawPlaying

----------------------------------------------------------------------------
(* AudioCommand::Stop *)

\* The sink is taken and stopped, the bookkeeping reset, and
\* thread_state.is_playing.store(false)
StopS1 ==
    /\ pc = "stop"
    /\ current_sink' = None
    /\ live_sinks' = IF HasSink THEN live_sinks - 1 ELSE live_sinks
    /\ playback_start' = None
    /\ paused_position_ms' = 0
    /\ is_playing' = FALSE
    /\ arm' = Arm("stopped")
    /\ seek_hold' = None
    /\ pc' = "stop_s2"
    /\ UNCHANGED << cmd, current_volume, current_speed, preloaded_path,
                    is_paused, position_ms, eqVars, now, rdRegs, fin, prev,
                    stopped,
                    chanVars, outVars, sideVars >>
    /\ rd_saw' = SawPlaying

\* thread_state.is_paused.store(false)
StopS2 ==
    /\ pc = "stop_s2"
    /\ is_paused' = FALSE
    /\ pc' = "stop_s3"
    /\ UNCHANGED << cmd, current_sink, playback_start, paused_position_ms,
                    current_volume, current_speed, preloaded_path,
                    is_playing, position_ms, eqVars, envVars, rdRegs,
                    histVars,
                    chanVars, outVars, sideVars >>
    /\ rd_saw' = SawPlaying

\* StopS3 without its store: position_ms keeps the value it had.
StopS3NoReset ==
    /\ pc = "stop_s3"
    /\ stopped' = TRUE
    /\ pc' = "update"
    /\ UNCHANGED << cmd, current_sink, playback_start, paused_position_ms,
                    current_volume, current_speed, preloaded_path,
                    atomVars, eqVars, envVars, rdVars,
                    iterVars, prev, seek_hold,
                    chanVars, outVars, sideVars >>

\* thread_state.position_ms.store(0)
StopS3 ==
    /\ pc = "stop_s3"
    /\ position_ms' = 0
    /\ stopped' = TRUE
    /\ pc' = "update"
    /\ UNCHANGED << cmd, current_sink, playback_start, paused_position_ms,
                    current_volume, current_speed, preloaded_path,
                    is_playing, is_paused, eqVars, envVars, rdVars,
                    iterVars, prev, seek_hold,
                    chanVars, outVars, sideVars >>

----------------------------------------------------------------------------
(* AudioCommand::SetVolume, SetSpeed, Seek, PreloadNext, SetEqEnabled *)

SetVolumeDroppingPreload ==
    /\ pc = "set_volume"
    /\ current_volume' = Clamp(cmd.n, 0, 100)
    /\ current_sink' = IF HasSink
                       THEN Some([Sink EXCEPT !.volume = current_volume'])
                       ELSE current_sink
    /\ preloaded_path' = None
    /\ arm' = Arm("set_volume")
    /\ pc' = "update"
    /\ UNCHANGED << cmd, playback_start, paused_position_ms, current_speed,
                    atomVars, eqVars, envVars, rdVars, fin,
                    prev, stopped, seek_hold,
                    chanVars, outVars, sideVars >>

SetVolume ==
    /\ pc = "set_volume"
    /\ current_volume' = Clamp(cmd.n, 0, 100)
    /\ current_sink' = IF HasSink
                       THEN Some([Sink EXCEPT !.volume = current_volume'])
                       ELSE current_sink
    /\ arm' = Arm("set_volume")
    /\ pc' = "update"
    /\ UNCHANGED << cmd, playback_start, paused_position_ms, current_speed,
                    preloaded_path, atomVars, eqVars, envVars, rdVars, fin,
                    prev, stopped, seek_hold,
                    chanVars, outVars, sideVars >>

SetSpeed ==
    /\ pc = "set_speed"
    /\ current_speed' = Clamp(cmd.n, 25, 400)
    /\ current_sink' = IF HasSink
                       THEN Some([Sink EXCEPT !.speed = current_speed'])
                       ELSE current_sink
    /\ arm' = Arm("set_speed")
    /\ pc' = "update"
    /\ UNCHANGED << cmd, playback_start, paused_position_ms, current_volume,
                    preloaded_path, atomVars, eqVars, envVars, rdVars, fin,
                    prev, stopped, seek_hold,
                    chanVars, outVars, sideVars >>

\* Duration::from_secs_f64(position_secs) panics on an argument that is
\* negative or not finite: the thread unwinds, which drops its sink, and
\* the atomics keep what they held.
SeekPanic ==
    /\ pc = "seek"
    /\ HasSink
    /\ cmd.n < 0
    /\ current_sink' = None
    /\ live_sinks' = live_sinks - 1
    /\ arm' = Arm("seek_panicked")
    /\ seek_hold' = None
    /\ pc' = "panicked"
    /\ UNCHANGED << cmd, playback_start, paused_position_ms, current_volume,
                    current_speed, preloaded_path, atomVars, eqVars, now,
                    rdVars, fin, prev, stopped,
                    chanVars, outVars, sideVars >>

\* A stage as EqualizerSource::new constructs it on the source of path,
\* with the coefficients, the preamp and the checked version of stage.
ColdStage(stage, path) ==
    [NewStage(path) EXCEPT
        !.coeffs = stage.coeffs,
        !.preamp_linear = stage.preamp_linear,
        !.last_checked_version = stage.last_checked_version]

\* sink.try_seek(pos) while the output thread is between two samples: the
\* stage of the current source gets try_seek, and the inner source's seek
\* returns ok.  A sink that has played its sources to the end has no stage
\* to seek.
Seeked(sink, ok) ==
    IF sink.queued = 0 THEN sink
    ELSE [sink EXCEPT !.eq = TrySeek(@, ok),
                      !.cold = IF ok /\ sink.fed > 0
                               THEN Some(ColdStage(sink.eq, sink.path))
                               ELSE @]

\* sink.try_seek's result is dropped; the bookkeeping takes the target.
Seek ==
    /\ pc = "seek"
    /\ HasSink => cmd.n >= 0
    /\ IF HasSink
       THEN /\ Sink.call.pc = "idle"
            /\ \E ok \in BOOLEAN : current_sink' = Some(Seeked(Sink, ok))
            /\ paused_position_ms' = SeekMs(cmd.n)
            /\ playback_start' = Some(now)
            /\ position_ms' = paused_position_ms'
            /\ arm' = Arm("seeked")
            /\ seek_hold' = IF is_paused
                            THEN Some(Hold(paused_position_ms'))
                            ELSE None
       ELSE /\ arm' = Arm("seek_no_sink")
            /\ UNCHANGED << current_sink, paused_position_ms,
                            playback_start, position_ms, seek_hold >>
    /\ pc' = "update"
    /\ UNCHANGED << cmd, current_volume, current_speed,
                    preloaded_path, is_playing, is_paused, eqVars, envVars,
                    rdVars, fin, prev, stopped,
                    chanVars, outVars, sideVars >>

PreloadNext ==
    /\ pc = "preload"
    /\ preloaded_path' = Some(cmd.path)
    /\ arm' = Arm("preloaded")
    /\ pc' = "update"
    /\ UNCHANGED << cmd, current_sink, playback_start, paused_position_ms,
                    current_volume, current_speed, atomVars, eqVars,
                    envVars, rdVars, fin, prev, stopped, seek_hold,
                    chanVars, outVars, sideVars >>

\* The frame of a step of an EQ handler
EqFrame ==
    UNCHANGED << cmd, current_sink, playback_start, paused_position_ms,
                 current_volume, current_speed, preloaded_path, atomVars,
                 envVars, rdVars, fin, prev, stopped, seek_hold,
                 chanVars, outVars, dbVars, clip, scanVars, media >>

\* SetEqEnabled: settings.enabled = enabled under the write lock
SetEqEnabled ==
    /\ pc = "set_eq_enabled"
    /\ eq_lock = "free"
    /\ eq_lock' = "write"
    /\ eq_enabled' = (cmd.n = 1)
    /\ arm' = Arm("set_eq_enabled")
    /\ eq_prev' = None
    /\ pc' = "eq_unlock"
    /\ UNCHANGED << eq_bands, eq_preamp_db, eq_preset_name,
                    settings_version >>
    /\ EqFrame

\* What eq_prev keeps of a SetEqBand
Repeated(c) ==
    [cmd |-> c,
     times |-> IF eq_prev # None /\ eq_prev[1].cmd = c
               THEN eq_prev[1].times + 1 ELSE 1]

\* SetEqBand: under the write lock, a band below 5 gets the gain clamped
\* to [-12, 12] dB and the preset name becomes "Custom".
SetEqBandRelative ==
    /\ pc = "set_eq_band"
    /\ eq_lock = "free"
    /\ eq_lock' = "write"
    /\ IF cmd.band < 5
       THEN /\ eq_bands' = [eq_bands EXCEPT
                              ![cmd.band + 1] =
                                  Clamp(cmd.n - @, -1200, 1200)]
            /\ eq_preset_name' = "Custom"
       ELSE UNCHANGED << eq_bands, eq_preset_name >>
    /\ arm' = Arm("set_eq_band")
    /\ eq_prev' = Some(Repeated(cmd))
    /\ pc' = "eq_unlock"
    /\ UNCHANGED << eq_enabled, eq_preamp_db, settings_version >>
    /\ EqFrame
SetEqBand ==
    /\ pc = "set_eq_band"
    /\ eq_lock = "free"
    /\ eq_lock' = "write"
    /\ IF cmd.band < 5
       THEN /\ eq_bands' = [eq_bands EXCEPT
                              ![cmd.band + 1] = Clamp(cmd.n, -1200, 1200)]
            /\ eq_preset_name' = "Custom"
       ELSE UNCHANGED << eq_bands, eq_preset_name >>
    /\ arm' = Arm("set_eq_band")
    /\ eq_prev' = Some(Repeated(cmd))
    /\ pc' = "eq_unlock"
    /\ UNCHANGED << eq_enabled, eq_preamp_db, settings_version >>
    /\ EqFrame

\* SetEqPreset: under the write lock, the first five gains, the preamp and
\* the name are taken as they come.
SetEqPresetCustom ==
    /\ pc = "set_eq_preset"
    /\ eq_lock = "free"
    /\ eq_lock' = "write"
    /\ eq_bands' = [i \in Bands |->
                      IF i <= Len(cmd.bands) THEN cmd.bands[i]
                      ELSE eq_bands[i]]
    /\ eq_preamp_db' = cmd.n
    /\ eq_preset_name' = "Custom"
    /\ arm' = Arm("set_eq_preset")
    /\ eq_prev' = None
    /\ pc' = "eq_unlock"
    /\ UNCHANGED << eq_enabled, settings_version >>
    /\ EqFrame
SetEqPreset ==
    /\ pc = "set_eq_preset"
    /\ eq_lock = "free"
    /\ eq_lock' = "write"
    /\ eq_bands' = [i \in Bands |->
                      IF i <= Len(cmd.bands) THEN cmd.bands[i]
                      ELSE eq_bands[i]]
    /\ eq_preamp_db' = cmd.n
    /\ eq_preset_name' = cmd.path
    /\ arm' = Arm("set_eq_preset")
    /\ eq_prev' = None
    /\ pc' = "eq_unlock"
    /\ UNCHANGED << eq_enabled, settings_version >>
    /\ EqFrame

\* SetEqPreamp: under the write lock, the preamp clamped to [-12, 12] dB
SetEqPreamp ==
    /\ pc = "set_eq_preamp"
    /\ eq_lock = "free"
    /\ eq_lock' = "write"
    /\ eq_preamp_db' = Clamp(cmd.n, -1200, 1200)
    /\ arm' = Arm("set_eq_preamp")
    /\ eq_prev' = None
    /\ pc' = "eq_unlock"
    /\ UNCHANGED << eq_enabled, eq_bands, eq_preset_name,
                    settings_version >>
    /\ EqFrame

\* thread_eq_settings.write() returns Err on a poisoned lock: the if-let
\* block of the handler is skipped and the version is bumped all the same.
EqWriteSkipped ==
    /\ pc \in {"set_eq_band", "set_eq_enabled", "set_eq_preset",
               "set_eq_preamp"}
    /\ eq_lock = "poisoned"
    /\ arm' = Arm(pc)
    /\ eq_prev' = None
    /\ pc' = "bump"
    /\ UNCHANGED << settingsVars, eq_lock, settings_version >>
    /\ EqFrame

\* The write guard goes out of scope at the end of the if-let block.
EqUnlock ==
    /\ pc = "eq_unlock"
    /\ eq_lock' = "free"
    /\ pc' = "bump"
    /\ UNCHANGED << settingsVars, settings_version, arm, eq_prev >>
    /\ EqFrame

\* bump_settings_version(): SETTINGS_VERSION.fetch_add(1)
BumpVersionEarly ==
    /\ pc = "eq_unlock"
    /\ settings_version' = settings_version + 1
    /\ pc' = "update"
    /\ UNCHANGED << settingsVars, eq_lock, arm, eq_prev >>
    /\ EqFrame
BumpVersion ==
    /\ pc = "bump"
    /\ settings_version' = settings_version + 1
    /\ pc' = "update"
    /\ UNCHANGED << settingsVars, eq_lock, arm, eq_prev >>
    /\ EqFrame

\* AudioController::get_eq_settings, called by any thread: a clone of the
\* settings taken under the read lock, which a writer makes wait, and
\* EqualizerSettings::default() when the lock is poisoned.
GetEqSettings ==
    [enabled |-> eq_lock = "poisoned" \/ eq_enabled,
     preamp_db |-> IF eq_lock = "poisoned" THEN 0 ELSE eq_preamp_db,
     gains |-> IF eq_lock = "poisoned" THEN FlatGains ELSE eq_bands,
     preset_name |-> IF eq_lock = "poisoned" THEN "Flat" ELSE eq_preset_name,
     frequency |-> BandFrequency, q |-> BandQ, filter_type |-> BandType]

----------------------------------------------------------------------------
(* After the match: the position update and the end-of-track check *)

\* paused_position_ms + start.elapsed().as_millis()
CurrentPos == paused_position_ms + Elapsed(playback_start[1])

UpdatePosition ==
    /\ pc = "update"
    /\ position_ms' = IF is_playing /\ ~is_paused /\ playback_start # None
                      THEN CurrentPos
                      ELSE position_ms
    /\ pc' = "check"
    /\ UNCHANGED << cmd, current_sink, playback_start, paused_position_ms,
                    current_volume, current_speed, preloaded_path,
                    is_playing, is_paused, eqVars, envVars, rdVars,
                    histVars,
                    chanVars, outVars, sideVars >>

\* sink.empty() && !sink.is_paused() && is_playing
Finished == HasSink /\ SinkEmpty /\ ~Sink.paused /\ is_playing

\* Not finished: the check does nothing.
CheckNothing ==
    /\ pc = "check"
    /\ ~Finished
    /\ pc' = "loop"
    /\ UNCHANGED << cmd, current_sink, playback_start, paused_position_ms,
                    current_volume, current_speed, preloaded_path, atomVars,
                    eqVars, envVars, rdVars, histVars,
                    chanVars, outVars, sideVars >>

\* CheckGapless without position_ms.store(0).
CheckGaplessNoReset ==
    /\ pc = "check"
    /\ Finished
    /\ preloaded_path # None
    /\ preloaded_path' = None
    /\ current_sink' = Some(Appended(Sink, preloaded_path[1]))
    /\ playback_start' = Some(now)
    /\ paused_position_ms' = 0
    /\ fin' = "gapless"
    /\ seek_hold' = None
    /\ pc' = "loop"
    /\ UNCHANGED << cmd, current_volume, current_speed, atomVars, eqVars,
                    envVars, rdVars, arm, prev, stopped,
                    chanVars, outVars, sideVars >>

\* Finished with a stashed path that opens and decodes: the source is
\* appended to the same sink.
CheckGapless ==
    /\ pc = "check"
    /\ Finished
    /\ preloaded_path # None
    /\ eq_lock # "poisoned"
    /\ preloaded_path' = None
    /\ current_sink' = Some(Appended(Sink, preloaded_path[1]))
    /\ playback_start' = Some(now)
    /\ paused_position_ms' = 0
    /\ position_ms' = 0
    /\ fin' = "gapless"
    /\ seek_hold' = None
    /\ pc' = "loop"
    /\ UNCHANGED << cmd, current_volume, current_speed, is_playing,
                    is_paused, eqVars, envVars, rdVars, arm, prev, stopped,
                    chanVars, outVars, sideVars >>

\* CheckGaplessFail with the stash left in place.
CheckGaplessFailKeepsStash ==
    /\ pc = "check"
    /\ Finished
    /\ preloaded_path # None
    /\ is_playing' = FALSE
    /\ fin' = "gapless_failed"
    /\ pc' = "loop"
    /\ UNCHANGED << cmd, current_sink, playback_start, paused_position_ms,
                    current_volume, current_speed, is_paused, position_ms,
                    preloaded_path,
                    eqVars, envVars, rdRegs, arm, prev, stopped, seek_hold,
                    chanVars, outVars, sideVars >>
    /\ rd_saw' = SawPlaying

\* Finished with a stashed path that fails to open or decode.
CheckGaplessFail ==
    /\ pc = "check"
    /\ Finished
    /\ preloaded_path # None
    /\ preloaded_path' = None
    /\ is_playing' = FALSE
    /\ fin' = "gapless_failed"
    /\ pc' = "loop"
    /\ UNCHANGED << cmd, current_sink, playback_start, paused_position_ms,
                    current_volume, current_speed, is_paused, position_ms,
                    eqVars, envVars, rdRegs, arm, prev, stopped, seek_hold,
                    chanVars, outVars, sideVars >>
    /\ rd_saw' = SawPlaying

\* Finished with nothing stashed.
CheckEnded ==
    /\ pc = "check"
    /\ Finished
    /\ preloaded_path = None
    /\ is_playing' = FALSE
    /\ fin' = "ended"
    /\ pc' = "loop"
    /\ UNCHANGED << cmd, current_sink, playback_start, paused_position_ms,
                    current_volume, current_speed, preloaded_path, is_paused,
                    position_ms, eqVars, envVars, rdRegs, arm, prev, stopped,
                    seek_hold,
                    chanVars, outVars, sideVars >>
    /\ rd_saw' = SawPlaying

\* The end of the loop body: back to recv_timeout.
Loop ==
    /\ pc = "loop"
    /\ pc' = "recv"
    /\ prev' = IF cmd = Timeout THEN prev ELSE PrevOf(arm)
    /\ cmd' = Timeout
    /\ arm' = NoArm
    /\ fin' = "none"
    /\ UNCHANGED << current_sink, playback_start, paused_position_ms,
                    current_volume, current_speed, preloaded_path, atomVars,
                    eqVars, envVars, rdVars, stopped, seek_hold,
                    chanVars, outVars, sideVars >>

----------------------------------------------------------------------------
(* AudioState::is_playing() on another thread:                            *)
(*   self.is_playing.load(Relaxed) && !self.is_paused.load(Relaxed)       *)

ReaderCall ==
    /\ rd_pc = "idle"
    /\ rd_pc' = "load_playing"
    /\ rd_saw' = Playing
    /\ UNCHANGED << localVars, atomVars, eqVars, envVars, rd_first,
                    rd_result, histVars,
                    chanVars, outVars, sideVars >>

\* The first load; && yields false without the second load when it is
\* false.
ReaderLoadPlaying ==
    /\ rd_pc = "load_playing"
    /\ rd_first' = is_playing
    /\ IF is_playing
       THEN rd_pc' = "load_paused" /\ UNCHANGED rd_result
       ELSE rd_pc' = "return" /\ rd_result' = FALSE
    /\ UNCHANGED << localVars, atomVars, eqVars, envVars, rd_saw,
                    histVars,
                    chanVars, outVars, sideVars >>

ReaderLoadPaused ==
    /\ rd_pc = "load_paused"
    /\ rd_result' = (rd_first /\ ~is_paused)
    /\ rd_pc' = "return"
    /\ UNCHANGED << localVars, atomVars, eqVars, envVars, rd_first, rd_saw,
                    histVars,
                    chanVars, outVars, sideVars >>

\* The call returns rd_result.
ReaderReturn ==
    /\ rd_pc = "return"
    /\ rd_pc' = "idle"
    /\ rd_first' = FALSE
    /\ rd_result' = FALSE
    /\ rd_saw' = FALSE
    /\ UNCHANGED << localVars, atomVars, eqVars, envVars, histVars,
                    chanVars, outVars, sideVars >>

----------------------------------------------------------------------------
(* The output thread: EqualizerSource::next() *)

\* Samples the decoder yields, and the commands the audio thread gets in
\* the specification of the equalizer: a gain above the clamp, a band out
\* of range, the preset More Bass.
Samples == {300, -800}
EqCommands ==
    {Cmd("Play", "A", 0), Cmd("Seek", "", 1500),
     Cmd("SetEqEnabled", "", 0), Cmd("SetEqPreamp", "", 600),
     [type |-> "SetEqBand", path |-> "", n |-> 2000, band |-> 0],
     [type |-> "SetEqBand", path |-> "", n |-> 600, band |-> 5],
     [type |-> "SetEqPreset", path |-> "More Bass", n |-> -200,
      bands |-> << 600, 400, 0, 0, 0 >>]}

RecvEq(c) == Receive(c, MaxEqVersion)

\* What a step of next() leaves alone
OutFrame ==
    UNCHANGED << pc, cmd, playback_start, paused_position_ms,
                 current_volume, current_speed, preloaded_path, atomVars,
                 eqVars, envVars, rdVars, histVars, chanVars, sideVars >>

\* At the start of a frame maybe_update_coefficients loads the version
\* and, when it differs, takes it as checked.
Checked(stage) ==
    IF stage.current_channel = 0 /\ VersionDiffers(stage)
    THEN [stage EXCEPT !.last_checked_version = settings_version]
    ELSE stage

\* next() is called on the stage of a sink that plays and has yielded
\* fewer than limit samples.
NextBegin(limit) ==
    /\ HasSink /\ ~SinkEmpty /\ ~Sink.paused
    /\ Sink.call.pc = "idle"
    /\ Sink.fed < limit
    /\ LET refresh == Checked(Sink.eq) # Sink.eq
       IN current_sink' = Some([Sink EXCEPT
              !.eq = Checked(@),
              !.cold = IF @ = None THEN None ELSE Some(Checked(@[1])),
              !.call = [pc |-> IF refresh THEN "refresh" ELSE "pull",
                        refresh |-> refresh,
                        locks |-> 0]])
    /\ UNCHANGED outVars
    /\ OutFrame

EqNextBegin == NextBegin(MaxPulls)
VisNextBegin == NextBegin(MaxVisPulls)

\* maybe_update_coefficients takes the read lock and recomputes.
EqRefresh ==
    /\ HasSink
    /\ Sink.call.pc = "refresh"
    /\ eq_lock = "free"
    /\ current_sink' = Some([Sink EXCEPT
           !.eq = Refreshed(@),
           !.cold = IF @ = None THEN None ELSE Some(Refreshed(@[1])),
           !.call = [@ EXCEPT !.pc = "pull", !.locks = @ + 1]])
    /\ UNCHANGED outVars
    /\ OutFrame

\* The rest of next(): the sample is pulled and analysed, enabled is read
\* under the read lock, the sample is emitted.
EqPull(sample) ==
    /\ HasSink
    /\ Sink.call.pc = "pull"
    /\ eq_lock = "free"
    /\ LET r == Pulled(Sink.eq, sample, eq_enabled)
           c == IF Sink.cold = None THEN None
                ELSE Some(Pulled(Sink.cold[1], sample, eq_enabled))
       IN /\ current_sink' = Some([Sink EXCEPT
                 !.eq = r.stage,
                 !.cold = IF c = None THEN None ELSE Some(c[1].stage),
                 !.call = IdleCall,
                 !.fed = @ + 1])
          /\ out' = Some([sample |-> sample,
                          value |-> r.value,
                          cold |-> IF c = None THEN None
                                   ELSE Some(c[1].value),
                          enabled |-> eq_enabled,
                          gains |-> eq_bands,
                          preamp_db |-> eq_preamp_db,
                          differed |-> Sink.call.refresh,
                          locks |-> Sink.call.locks + 1])
          /\ vis_levels' = IF r.levels = None THEN vis_levels
                           ELSE r.levels[1]
    /\ OutFrame

\* self.settings.read() returns Err on a poisoned lock: the if-let block
\* of maybe_update_coefficients is skipped.
EqRefreshSkipped ==
    /\ HasSink
    /\ Sink.call.pc = "refresh"
    /\ eq_lock = "poisoned"
    /\ current_sink' = Some([Sink EXCEPT !.call = [@ EXCEPT !.pc = "pull"]])
    /\ UNCHANGED outVars
    /\ OutFrame

\* The rest of next() on a poisoned lock: the read of enabled yields
\* unwrap_or(false).
EqPullNoLock(sample) ==
    /\ HasSink
    /\ Sink.call.pc = "pull"
    /\ eq_lock = "poisoned"
    /\ LET r == Pulled(Sink.eq, sample, FALSE)
           c == IF Sink.cold = None THEN None
                ELSE Some(Pulled(Sink.cold[1], sample, FALSE))
       IN /\ current_sink' = Some([Sink EXCEPT
                 !.eq = r.stage,
                 !.cold = IF c = None THEN None ELSE Some(c[1].stage),
                 !.call = IdleCall,
                 !.fed = @ + 1])
          /\ out' = Some([sample |-> sample,
                          value |-> r.value,
                          cold |-> IF c = None THEN None
                                   ELSE Some(c[1].value),
                          enabled |-> FALSE,
                          gains |-> eq_bands,
                          preamp_db |-> eq_preamp_db,
                          differed |-> Sink.call.refresh,
                          locks |-> Sink.call.locks])
          /\ vis_levels' = IF r.levels = None THEN vis_levels
                           ELSE r.levels[1]
    /\ OutFrame

OutputThread == EqNextBegin \/ EqRefresh \/ \E sample \in Samples : EqPull(sample)

----------------------------------------------------------------------------
(* The soft clip of next() on its own *)

\* The filters of an enabled equalizer leave a value.
ClipEnter(value) ==
    /\ clip = None
    /\ clip' = Some([value |-> value, output |-> None])
    /\ UNCHANGED << localVars, atomVars, eqVars, envVars, rdVars, histVars,
                    chanVars, outVars, eq_prev, dbVars, scanVars, media >>

\* The value is soft-clipped and returned.
ClipReturn ==
    /\ clip # None
    /\ clip[1].output = None
    /\ clip' = Some([clip[1] EXCEPT !.output = Some(SoftClip(clip[1].value))])
    /\ UNCHANGED << localVars, atomVars, eqVars, envVars, rdVars, histVars,
                    chanVars, outVars, eq_prev, dbVars, scanVars, media >>

----------------------------------------------------------------------------
(* The database: tracks and playlists (src-tauri/src/database.rs) *)

\* i64::MAX, the largest position a row of playlist_tracks holds, scaled
\* down to the integers of the model.
I64_MAX == 2

\* The tracks handed to insert_track: two with the same file_path.
TrackInputs ==
    {[file_path |-> "A", title |-> "t1", artist |-> "x", album |-> "k"],
     [file_path |-> "A", title |-> "t2", artist |-> "y", album |-> "m"],
     [file_path |-> "B", title |-> "t1", artist |-> "x", album |-> "k"]}

\* The names handed to create_playlist, in the order of COLLATE NOCASE.
PlaylistNames == << "a", "B" >>

\* The ids and the positions handed to the functions.
TrackIds == 1..MaxTrackSeq
PlaylistIds == 1..MaxPlaylistSeq
Positions == {None, Some(I64_MAX)}

Ok(value) == [ok |-> TRUE, value |-> value]
Err == [ok |-> FALSE, value |-> None]

\* The memberships of a playlist.
InPlaylist(db, playlist_id) ==
    {pt \in db.playlist_tracks : pt.playlist_id = playlist_id}

\* INSERT INTO tracks ... ON CONFLICT(file_path) DO UPDATE SET ...: every
\* execution takes a value of the AUTOINCREMENT sequence; an existing row
\* of the file_path keeps its id and takes the other columns.
UpsertedTwice(db, track) ==
    [db EXCEPT
        !.track_seq = @ + 1,
        !.tracks = Append(@, [id |-> db.track_seq + 1,
                              file_path |-> track.file_path,
                              title |-> track.title,
                              artist |-> track.artist,
                              album |-> track.album])]
Upserted(db, track) ==
    IF \E i \in DOMAIN db.tracks : db.tracks[i].file_path = track.file_path
    THEN [db EXCEPT
            !.track_seq = @ + 1,
            !.tracks = [i \in DOMAIN @ |->
                           IF @[i].file_path = track.file_path
                           THEN [@[i] EXCEPT !.title = track.title,
                                             !.artist = track.artist,
                                             !.album = track.album]
                           ELSE @[i]]]
    ELSE [db EXCEPT
            !.track_seq = @ + 1,
            !.tracks = Append(@, [id |-> db.track_seq + 1,
                                  file_path |-> track.file_path,
                                  title |-> track.title,
                                  artist |-> track.artist,
                                  album |-> track.album])]

\* SELECT id FROM tracks WHERE file_path = ?1, as query_row returns it:
\* the first row.
IdOfPath(db, file_path) ==
    LET rows == SelectSeq(db.tracks, LAMBDA row : row.file_path = file_path)
    IN IF rows = << >> THEN Err ELSE Ok(rows[1].id)

\* get_track_by_id: the row of the id, or QueryReturnedNoRows.
GetTrackById(db, id) ==
    LET rows == SelectSeq(db.tracks, LAMBDA row : row.id = id)
    IN IF rows = << >> THEN Err ELSE Ok(rows[1])

\* The rows of a sequence in the order of a column, whose values are
\* keys[1], keys[2], ...; rows of one value stay in the order they have.
RECURSIVE OrderedBy(_, _, _)
OrderedBy(rows, column, keys) ==
    IF keys = << >> THEN << >>
    ELSE SelectSeq(rows, LAMBDA row : row[column] = Head(keys))
         \o OrderedBy(rows, column, Tail(keys))

\* get_playlists: every playlist with the number of its memberships,
\* ORDER BY name COLLATE NOCASE.
GetPlaylists(db) ==
    LET counted ==
            [i \in DOMAIN db.playlists |->
                [id |-> db.playlists[i].id,
                 name |-> db.playlists[i].name,
                 track_count |->
                     Cardinality(InPlaylist(db, db.playlists[i].id))]]
    IN OrderedBy(counted, "name", PlaylistNames)

\* get_playlist_tracks: the tracks joined to the memberships of the
\* playlist, ORDER BY position ASC.  SQLite leaves the order of the
\* memberships of one position open; here they come by track id.
GetPlaylistTracks(db, playlist_id) ==
    LET At(track) == {pt.position : pt \in
                         {m \in InPlaylist(db, playlist_id) :
                              m.track_id = track.id}}
        joined == SelectSeq(db.tracks, LAMBDA track : At(track) # {})
        rows == [i \in DOMAIN joined |->
                    [track |-> joined[i],
                     id |-> joined[i].id,
                     position |-> CHOOSE pos \in At(joined[i]) : TRUE]]
        ordered == OrderedBy(OrderedBy(rows, "id", [i \in TrackIds |-> i]),
                             "position", [i \in 1..(I64_MAX + 1) |-> i - 1])
    IN [i \in DOMAIN ordered |-> ordered[i].track]

\* SELECT COALESCE(MAX(position), -1) + 1 read as an Option<i64>, with
\* unwrap_or(Some(0)): SQLite computes the sum of i64::MAX and 1 in
\* floating point, which is no i64, and the error becomes position 0.
EndPosition(db, playlist_id) ==
    LET at == {pt.position : pt \in InPlaylist(db, playlist_id)}
        max == IF at = {} THEN -1
               ELSE CHOOSE m \in at : \A pos \in at : pos <= m
    IN IF max = I64_MAX THEN 0 ELSE max + 1

\* Each function of DatabaseInner runs under the mutex of the Database
\* and leaves everything else alone.
Called(fn, args, result) == Some([fn |-> fn, args |-> args, result |-> result])
DbFrame ==
    UNCHANGED << localVars, atomVars, eqVars, envVars, rdVars, histVars,
                 chanVars, outVars, eq_prev, clip, scanVars, media >>

\* insert_track: the upsert in its transaction, then the id of the path.
InsertTrack(track) ==
    /\ database.track_seq < MaxTrackSeq
    /\ database' = Upserted(database, track)
    /\ db_call' = Called("insert_track", track,
                         IdOfPath(database', track.file_path))
    /\ DbFrame

\* delete_track: a track that a membership references stays, by the
\* foreign key of playlist_tracks.
DeleteTrack(id) ==
    /\ IF \E pt \in database.playlist_tracks : pt.track_id = id
       THEN /\ database' = database
            /\ db_call' = Called("delete_track", id, Err)
       ELSE /\ database' =
                   [database EXCEPT
                       !.tracks = SelectSeq(@, LAMBDA row : row.id # id)]
            /\ db_call' = Called("delete_track", id, Ok(None))
    /\ DbFrame

\* create_playlist returns last_insert_rowid.
CreatePlaylist(name) ==
    /\ database.playlist_seq < MaxPlaylistSeq
    /\ database' =
           [database EXCEPT
               !.playlist_seq = @ + 1,
               !.playlists = Append(@, [id |-> database.playlist_seq + 1,
                                        name |-> name])]
    /\ db_call' = Called("create_playlist", name, Ok(database'.playlist_seq))
    /\ DbFrame

\* delete_playlist: the memberships, then the playlist, in a transaction.
DeletePlaylistRowOnly(id) ==
    /\ database' =
           [database EXCEPT
               !.playlists = SelectSeq(@, LAMBDA row : row.id # id)]
    /\ db_call' = Called("delete_playlist", id, Ok(None))
    /\ DbFrame
DeletePlaylist(id) ==
    /\ database' =
           [database EXCEPT
               !.playlist_tracks = {pt \in @ : pt.playlist_id # id},
               !.playlists = SelectSeq(@, LAMBDA row : row.id # id)]
    /\ db_call' = Called("delete_playlist", id, Ok(None))
    /\ DbFrame

\* add_track_to_playlist: the position given or the end position, then
\* the insert unless the membership exists; the insert fails by a foreign
\* key when the playlist or the track does not exist.
AddTrackToPlaylist(playlist_id, track_id, position) ==
    LET final_position == IF position # None THEN position[1]
                          ELSE EndPosition(database, playlist_id)
        exists == \E pt \in InPlaylist(database, playlist_id) :
                      pt.track_id = track_id
        args == << playlist_id, track_id, position >>
    IN /\ IF exists
          THEN /\ database' = database
               /\ db_call' = Called("add_track_to_playlist", args, Ok(None))
          ELSE IF /\ \E i \in DOMAIN database.playlists :
                         database.playlists[i].id = playlist_id
                  /\ GetTrackById(database, track_id).ok
          THEN /\ database' =
                      [database EXCEPT
                          !.playlist_tracks =
                              @ \cup {[playlist_id |-> playlist_id,
                                       track_id |-> track_id,
                                       position |-> final_position]}]
               /\ db_call' = Called("add_track_to_playlist", args, Ok(None))
          ELSE /\ database' = database
               /\ db_call' = Called("add_track_to_playlist", args, Err)
       /\ DbFrame

----------------------------------------------------------------------------
(* The library scan: scan_folders, run_background_scan, cancel_scan and   *)
(* ScannerWithProgress::scan_with_progress                                *)

\* insert_tracks_batch: the upsert of insert_track for every track of the
\* batch, in one transaction.
RECURSIVE InsertTracksBatch(_, _)
InsertTracksBatch(db, tracks) ==
    IF tracks = << >> THEN db
    ELSE InsertTracksBatch(Upserted(db, Head(tracks)), Tail(tracks))

\* The Track scan_file_for_batch reads from a file.
ScannedTrack(path) ==
    [file_path |-> path, title |-> "t1", artist |-> "x", album |-> "k"]

\* A non-empty batch is inserted if the mutex can be locked; a poisoned
\* mutex leaves the database as it is.
Flushed(db, batch) ==
    IF batch = << >> \/ db_poisoned THEN db ELSE InsertTracksBatch(db, batch)

\* The file_path column of tracks (the keys of get_existing_file_info).
ExistingPaths(db) == {db.tracks[i].file_path : i \in DOMAIN db.tracks}

\* The caller holds scan_running.
Holding(c) ==
    scanner[c].pc \in {"folders", "spawned", "discover", "existing", "loop",
                       "release"}

ScanFrame ==
    UNCHANGED << localVars, atomVars, eqVars, envVars, rdVars, histVars,
                 chanVars, outVars, eq_prev, db_call, clip, media >>

\* Acquire with a load followed by a store in place of the
\* compare-and-swap: the store is made whatever the load saw.
AcquireStore(c) ==
    /\ scanner[c].pc = "idle"
    /\ scan_calls < MaxScans
    /\ scan_calls' = scan_calls + 1
    /\ scan_running' = TRUE
    /\ scanner' = [scanner EXCEPT ![c].pc = "folders"]
    /\ UNCHANGED << scan_cancelled, db_poisoned, database >>
    /\ ScanFrame

\* scan_running.compare_exchange(false, true): scan_folders returns
\* Err("A scan is already in progress") when it fails, and
\* run_background_scan returns (background_scan.rs:70).
Acquire(c) ==
    /\ scanner[c].pc = "idle"
    /\ scan_calls < MaxScans
    /\ scan_calls' = scan_calls + 1
    /\ IF scan_running
       THEN /\ scanner' = [scanner EXCEPT ![c].pc = "returned",
                                          ![c].result = Some(ScanErr)]
            /\ UNCHANGED scan_running
       ELSE /\ scan_running' = TRUE
            /\ scanner' = [scanner EXCEPT ![c].pc = "folders"]
    /\ UNCHANGED << scan_cancelled, db_poisoned, database >>
    /\ ScanFrame

\* FoldersError without the store to scan_running.
FoldersErrorHolding(c) ==
    /\ scanner[c].pc = "folders"
    /\ scanner' = [scanner EXCEPT ![c].pc = "returned",
                                  ![c].result = Some(ScanErr)]
    /\ UNCHANGED << scan_running, scan_cancelled, db_poisoned, scan_calls,
                    database >>
    /\ ScanFrame

\* The mutex is poisoned or get_scan_folders fails: scan_running is
\* stored false and the caller returns (background_scan.rs:83-92).
FoldersError(c) ==
    /\ scanner[c].pc = "folders"
    /\ scan_running' = FALSE
    /\ scanner' = [scanner EXCEPT ![c].pc = "returned",
                                  ![c].result = Some(ScanErr)]
    /\ UNCHANGED << scan_cancelled, db_poisoned, scan_calls, database >>
    /\ ScanFrame

\* The enabled folders are read: enabled tells whether there is one, n is
\* the number of audio files a walk of them meets.  run_background_scan
\* returns when there is none (background_scan.rs:96-99); otherwise the
\* scanner is spawned on a blocking thread.
FoldersLoaded(c, enabled, n) ==
    /\ scanner[c].pc = "folders"
    /\ ~db_poisoned
    /\ ~enabled => n = 0
    /\ IF IsBackground(c) /\ ~enabled
       THEN /\ scan_running' = FALSE
            /\ scanner' = [scanner EXCEPT ![c].pc = "returned"]
       ELSE /\ scanner' = [scanner EXCEPT ![c].pc = "spawned",
                                          ![c].walk = SubSeq(AudioFiles, 1, n)]
            /\ UNCHANGED scan_running
    /\ UNCHANGED << scan_cancelled, db_poisoned, scan_calls, database >>
    /\ ScanFrame

\* scan_with_progress starts: self.cancelled.store(false).
ScanBegin(c) ==
    /\ scanner[c].pc = "spawned"
    /\ scan_cancelled' = FALSE
    /\ scanner' = [scanner EXCEPT ![c].pc = "discover"]
    /\ UNCHANGED << scan_running, db_poisoned, scan_calls, database >>
    /\ ScanFrame

\* collect_audio_files: before each entry of the walk the flag is loaded,
\* and the files found so far are returned when it is set; an audio file
\* is pushed; the walk ends.
Discover(c) ==
    LET r == scanner[c]
    IN /\ r.pc = "discover"
       /\ IF Len(r.files) < Len(r.walk) /\ ~scan_cancelled
          THEN scanner' = [scanner EXCEPT
                              ![c].files = Append(@, r.walk[Len(r.files) + 1])]
          ELSE scanner' = [scanner EXCEPT ![c].pc = "existing"]
       /\ UNCHANGED << scan_running, scan_cancelled, db_poisoned, scan_calls,
                       database >>
       /\ ScanFrame

\* existing_files = db.lock()?.get_existing_file_info()
ExistingFiles(c) ==
    /\ scanner[c].pc = "existing"
    /\ ~db_poisoned
    /\ scanner' = [scanner EXCEPT ![c].pc = "loop",
                                  ![c].existing_files = ExistingPaths(database)]
    /\ UNCHANGED << scan_running, scan_cancelled, db_poisoned, scan_calls,
                    database >>
    /\ ScanFrame

\* db.lock() fails: scan_with_progress returns the Err.
ExistingLockError(c) ==
    /\ scanner[c].pc = "existing"
    /\ db_poisoned
    /\ scanner' = [scanner EXCEPT ![c].pc = "release",
                                  ![c].result = Some(ScanErr)]
    /\ UNCHANGED << scan_running, scan_cancelled, db_poisoned, scan_calls,
                    database >>
    /\ ScanFrame

\* ScanCancelled without the insert of the batch.
ScanCancelledDropsBatch(c) ==
    LET r == scanner[c]
    IN /\ r.pc = "loop"
       /\ r.index < Len(r.files)
       /\ scan_cancelled
       /\ scanner' = [scanner EXCEPT ![c].pc = "release",
                                     ![c].result = Some(ScanResult(r, TRUE))]
       /\ UNCHANGED << scan_running, scan_cancelled, db_poisoned, scan_calls,
                       database >>
       /\ ScanFrame

\* The top of an iteration finds the flag set: a non-empty batch is
\* inserted and the scan returns with cancelled = true.
ScanCancelled(c) ==
    LET r == scanner[c]
    IN /\ r.pc = "loop"
       /\ r.index < Len(r.files)
       /\ scan_cancelled
       /\ database' = Flushed(database, r.batch)
       /\ scanner' = [scanner EXCEPT ![c].pc = "release",
                                     ![c].result = Some(ScanResult(r, TRUE))]
       /\ UNCHANGED << scan_running, scan_cancelled, db_poisoned, scan_calls >>
       /\ ScanFrame

\* should_scan_file is false: the path is in existing_files and the file
\* has not been modified since.
ScanSkip(c) ==
    LET r == scanner[c]
    IN /\ r.pc = "loop"
       /\ r.index < Len(r.files)
       /\ ~scan_cancelled
       /\ r.files[r.index + 1] \in r.existing_files
       /\ scanner' = [scanner EXCEPT ![c].index = @ + 1,
                                     ![c].skipped_count = @ + 1,
                                     ![c].tally = Append(@, "skipped")]
       /\ UNCHANGED << scan_running, scan_cancelled, db_poisoned, scan_calls,
                       database >>
       /\ ScanFrame

\* scan_file_for_batch returns a track: it is pushed and counted, and a
\* full batch is inserted and cleared.
ScanFile(c) ==
    LET r == scanner[c]
        batch == Append(r.batch, ScannedTrack(r.files[r.index + 1]))
        full == Len(batch) >= BATCH_SIZE
    IN /\ r.pc = "loop"
       /\ r.index < Len(r.files)
       /\ ~scan_cancelled
       /\ database' = IF full THEN Flushed(database, batch) ELSE database
       /\ scanner' = [scanner EXCEPT ![c].index = @ + 1,
                                     ![c].scanned_count = @ + 1,
                                     ![c].batch = IF full THEN << >> ELSE batch,
                                     ![c].tally = Append(@, "scanned")]
       /\ UNCHANGED << scan_running, scan_cancelled, db_poisoned, scan_calls >>
       /\ ScanFrame

\* scan_file_for_batch returns an error.
ScanFileError(c) ==
    LET r == scanner[c]
    IN /\ r.pc = "loop"
       /\ r.index < Len(r.files)
       /\ ~scan_cancelled
       /\ scanner' = [scanner EXCEPT ![c].index = @ + 1,
                                     ![c].error_count = @ + 1,
                                     ![c].tally = Append(@, "error")]
       /\ UNCHANGED << scan_running, scan_cancelled, db_poisoned, scan_calls,
                       database >>
       /\ ScanFrame

\* The loop is over: the rest of the batch is inserted and the scan
\* returns with cancelled = false.
ScanFinish(c) ==
    LET r == scanner[c]
    IN /\ r.pc = "loop"
       /\ r.index = Len(r.files)
       /\ database' = Flushed(database, r.batch)
       /\ scanner' = [scanner EXCEPT ![c].pc = "release",
                                     ![c].result = Some(ScanResult(r, FALSE))]
       /\ UNCHANGED << scan_running, scan_cancelled, db_poisoned, scan_calls >>
       /\ ScanFrame

\* The closure on the blocking thread: scan_running.store(false) after
\* scan_with_progress has returned.
Release(c) ==
    /\ scanner[c].pc = "release"
    /\ scan_running' = FALSE
    /\ scanner' = [scanner EXCEPT ![c].pc = "returned"]
    /\ UNCHANGED << scan_cancelled, db_poisoned, scan_calls, database >>
    /\ ScanFrame

\* The caller has its result.
ScanReturn(c) ==
    /\ scanner[c].pc = "returned"
    /\ scanner' = [scanner EXCEPT ![c] = NotScanning]
    /\ UNCHANGED << scan_running, scan_cancelled, db_poisoned, scan_calls,
                    database >>
    /\ ScanFrame

\* The scan of c has a file left that no iteration has begun with.
FilesLeft(c) ==
    LET r == scanner[c]
    IN \/ r.pc \in {"folders", "spawned", "discover", "existing"}
       \/ r.pc = "loop" /\ r.index < Len(r.files)

\* cancel_scan: scan_cancelled.store(true).  The holder of scan_running
\* keeps the phase it was in when the first one arrived.
CancelScan ==
    /\ scan_cancelled' = TRUE
    /\ scanner' = [c \in ScanCallers |->
                      IF FilesLeft(c) /\ scanner[c].cancel_at = "none"
                      THEN [scanner[c] EXCEPT !.cancel_at = scanner[c].pc]
                      ELSE scanner[c]]
    /\ UNCHANGED << scan_running, db_poisoned, scan_calls, database >>
    /\ ScanFrame

\* A thread panics while it holds the mutex of the Database.
DbPoison ==
    /\ ~db_poisoned
    /\ db_poisoned' = TRUE
    /\ UNCHANGED << scan_running, scan_cancelled, scanner, scan_calls,
                    database >>
    /\ ScanFrame

\* A step of the caller c once it holds scan_running.
ScanStep(c) ==
    \/ FoldersError(c)
    \/ \E enabled \in BOOLEAN, n \in 0..MaxFiles : FoldersLoaded(c, enabled, n)
    \/ ScanBegin(c) \/ Discover(c) \/ ExistingFiles(c)
    \/ ScanCancelled(c) \/ ScanSkip(c) \/ ScanFile(c) \/ ScanFileError(c)
    \/ ScanFinish(c) \/ Release(c)

----------------------------------------------------------------------------
(* Specifications *)

Environment == Tick \/ SourceEnds

\* A thread that holds the write lock of the settings panics (the
\* Arc<RwLock<EqualizerSettings>> is shared with the rest of the process
\* through AudioState::eq_settings): the lock is poisoned from then on.
Poison ==
    /\ eq_lock = "free"
    /\ eq_lock' = "poisoned"
    /\ UNCHANGED << localVars, atomVars, settingsVars, settings_version,
                    envVars, rdVars, histVars,
                    chanVars, outVars, sideVars >>

AudioThread ==
    \/ DeviceInitOk \/ DeviceInitFail
    \/ \E c \in Commands : RecvCmd(c)
    \/ RecvTimeout \/ RecvDisconnected
    \/ PlayStopOld \/ PlayFail \/ PlayOpenOk
    \/ PlayS1 \/ PlayS2 \/ PlayS3
    \/ Pause
    \/ StopS1 \/ StopS2 \/ StopS3
    \/ SetVolume \/ SetSpeed \/ SeekPanic \/ Seek \/ PreloadNext
    \/ SetEqEnabled \/ EqUnlock \/ BumpVersion
    \/ UpdatePosition
    \/ CheckNothing \/ CheckGapless \/ CheckGaplessFail \/ CheckEnded
    \/ Loop

Reader ==
    ReaderCall \/ ReaderLoadPlaying \/ ReaderLoadPaused \/ ReaderReturn

\* What the audio thread does with a command once it holds it, and the
\* rest of the loop body.
Handlers ==
    \/ PlayStopOld \/ PlayFail \/ PlayOpenOk
    \/ PlayS1 \/ PlayS2 \/ PlayS3
    \/ Pause
    \/ StopS1 \/ StopS2 \/ StopS3
    \/ SetVolume \/ SetSpeed \/ SeekPanic \/ Seek \/ PreloadNext
    \/ SetEqEnabled \/ EqUnlock \/ BumpVersion
    \/ UpdatePosition
    \/ CheckNothing \/ CheckGapless \/ CheckGaplessFail \/ CheckEnded
    \/ Loop

\* The audio thread and its environment.
Next == Environment \/ AudioThread

Spec == Init /\ [][Next]_vars

\* The audio thread with a thread calling AudioState::is_playing().  The
\* clock stands still: no store to is_playing or is_paused depends on it.
NextReader == SourceEnds \/ AudioThread \/ Reader

SpecReader == Init /\ [][NextReader]_vars

\* The audio thread fed through the channel by the submission functions.
\* The clock stands still, and the senders are never dropped.
NextChannel ==
    \/ \E c \in Submitted : Submit(c)
    \/ DeviceInitOk \/ DeviceInitFail
    \/ RecvQueued \/ RecvTimeout
    \/ Handlers
    \/ SourceEnds

SpecChannel == Init /\ [][NextChannel]_vars

\* The audio thread with the equalizer's commands and the output thread
\* pulling samples through the stage.  The clock stands still, every
\* seek argument is valid and no source ends within MaxPulls samples.
NextEq ==
    \/ DeviceInitOk
    \/ \E c \in EqCommands : RecvEq(c)
    \/ RecvTimeout
    \/ PlayStopOld \/ PlayFail \/ PlayOpenOk
    \/ PlayS1 \/ PlayS2 \/ PlayS3
    \/ Seek
    \/ SetEqBand \/ SetEqEnabled \/ SetEqPreset \/ SetEqPreamp
    \/ EqUnlock \/ BumpVersion
    \/ UpdatePosition
    \/ CheckNothing
    \/ Loop
    \/ OutputThread

SpecEq == Init /\ [][NextEq]_vars

\* The audio thread and the output thread with a lock of the settings that
\* can become poisoned.  The clock stands still.
LockCommands == {Cmd("Play", "A", 0), Cmd("SetEqPreamp", "", 600)}

NextLock ==
    \/ Poison
    \/ DeviceInitOk
    \/ \E c \in LockCommands : RecvCmd(c)
    \/ RecvTimeout
    \/ PlayStopOld \/ PlayOpenOk \/ PlayPanic
    \/ PlayS1 \/ PlayS2 \/ PlayS3
    \/ SetEqPreamp \/ EqWriteSkipped
    \/ EqUnlock \/ BumpVersion
    \/ UpdatePosition
    \/ CheckNothing
    \/ Loop
    \/ EqNextBegin
    \/ EqRefresh \/ EqRefreshSkipped
    \/ \E sample \in Samples : EqPull(sample)
    \/ \E sample \in Samples : EqPullNoLock(sample)

SpecLock == Init /\ [][NextLock]_vars

\* The audio thread and the output thread on files of one and two
\* channels, the stereo file C at the low sample rate, with the equalizer
\* enabled and disabled.  The clock stands still.
VisCommands ==
    {Cmd("Play", "B", 0), Cmd("Play", "C", 0), Cmd("SetEqEnabled", "", 0)}

NextVis ==
    \/ DeviceInitOk
    \/ \E c \in VisCommands : RecvCmd(c)
    \/ RecvTimeout
    \/ PlayStopOld \/ PlayOpenOk
    \/ PlayS1 \/ PlayS2 \/ PlayS3
    \/ SetEqEnabled \/ EqUnlock \/ BumpVersion
    \/ UpdatePosition
    \/ CheckNothing
    \/ Loop
    \/ VisNextBegin
    \/ EqRefresh
    \/ \E sample \in Samples : EqPull(sample)

SpecVis == Init /\ [][NextVis]_vars

\* The audio thread and the output thread with the equalizer switched off
\* and on again while a stereo file plays.  The clock stands still.
ToggleCommands ==
    {Cmd("Play", "A", 0), Cmd("SetEqEnabled", "", 0),
     Cmd("SetEqEnabled", "", 1)}

NextToggle ==
    \/ DeviceInitOk
    \/ \E c \in ToggleCommands : RecvEq(c)
    \/ RecvTimeout
    \/ PlayStopOld \/ PlayOpenOk
    \/ PlayS1 \/ PlayS2 \/ PlayS3
    \/ SetEqEnabled \/ EqUnlock \/ BumpVersion
    \/ UpdatePosition
    \/ CheckNothing
    \/ Loop
    \/ EqNextBegin
    \/ EqRefresh
    \/ \E sample \in Samples : EqPull(sample)

SpecToggle == Init /\ [][NextToggle]_vars

\* The calls of the database's functions, one at a time under its mutex.
NextDb ==
    \/ \E track \in TrackInputs : InsertTrack(track)
    \/ \E id \in TrackIds : DeleteTrack(id)
    \/ \E i \in DOMAIN PlaylistNames : CreatePlaylist(PlaylistNames[i])
    \/ \E id \in PlaylistIds : DeletePlaylist(id)
    \/ \E playlist_id \in PlaylistIds, track_id \in TrackIds,
          position \in Positions :
            AddTrackToPlaylist(playlist_id, track_id, position)

SpecDb == Init /\ [][NextDb]_vars

\* The audio thread fed through the channel by play_file, stop and the
\* toggles that report to the media controls.  The clock stands still.
MediaCommands == {Cmd("Play", "A", 0), Cmd("Stop", "", 0)}

NextMedia ==
    \/ \E event \in MediaEvents : MediaRead(event)
    \/ MediaSend
    \/ \E c \in MediaCommands : Submit(c)
    \/ DeviceInitOk
    \/ RecvQueued \/ RecvTimeout
    \/ PlayStopOld \/ PlayFail \/ PlayOpenOk
    \/ PlayS1 \/ PlayS2 \/ PlayS3
    \/ Pause
    \/ StopS1 \/ StopS2 \/ StopS3
    \/ UpdatePosition
    \/ CheckNothing \/ CheckEnded
    \/ Loop
    \/ SourceEnds

SpecMedia == Init /\ [][NextMedia]_vars

\* The library scan: the callers, the scanner and cancel_scan, with a
\* database whose mutex can be locked.
NextScan ==
    \/ \E c \in ScanCallers : Acquire(c) \/ ScanStep(c) \/ ScanReturn(c)
    \/ CancelScan

SpecScan == Init /\ [][NextScan]_vars

\* The library scan with a mutex that can become poisoned.  Every caller
\* that holds scan_running goes on: its task runs on the async runtime and
\* the scanner on a thread of the blocking pool.
NextScanLock ==
    \/ NextScan
    \/ DbPoison
    \/ \E c \in ScanCallers : ExistingLockError(c)

SpecScanFair ==
    /\ Init /\ [][NextScanLock]_vars
    /\ \A c \in ScanCallers : WF_vars(ScanStep(c) \/ ExistingLockError(c))


\* The soft clip applied to every value within MaxClip thousandths of 0.
NextClip == (\E value \in -MaxClip..MaxClip : ClipEnter(value)) \/ ClipReturn

SpecClip == Init /\ [][NextClip]_vars

----------------------------------------------------------------------------
(* Claims *)

\* A handler has just run to its end with the given arm.
Handled(name) == pc = "update" /\ arm.name = name

\* C1: a Play(path) whose file opens and decodes leaves, from any state,
\* is_playing = true, is_paused = false, position_ms = 0 and one live sink,
\* the current one, not paused, holding the source of that path.
C1_PlayEndsPlaying ==
    Handled("play_ok") =>
        /\ cmd.type = "Play"
        /\ is_playing /\ ~is_paused /\ position_ms = 0
        /\ HasSink /\ Sink.path = cmd.path /\ ~Sink.paused
        /\ live_sinks = 1

\* A successful Play handled right after a Pause that paused a sink.
C1_Witness == Handled("play_ok") /\ prev.name = "paused" /\ now > 0

\* C2: a Play(path) whose file fails to open or decode leaves the sink,
\* is_playing, is_paused and the position bookkeeping as they were.
C2_FailedPlayNoEffect ==
    [][PlayFail => UNCHANGED << current_sink, is_playing, is_paused,
                                position_ms, paused_position_ms,
                                playback_start >>]_vars

\* The step of the Pause handler.
PauseStep == pc = "pause" /\ pc' = "update"

\* C3: Pause handled in state Playing leaves state Paused with the elapsed
\* time added to the offset and the position no longer advancing; handled
\* in state Paused it leaves state Playing; the second of two consecutive
\* Pause commands restores the is_paused flag the first one found.
C3_PauseToggles ==
    [][/\ (PauseStep /\ Playing) =>
            (Paused' /\ paused_position_ms' = PauseOffset)
       /\ (PauseStep /\ Paused) => Playing'
       /\ (PauseStep /\ prev.name \in {"paused", "resumed", "pause_no_sink"})
            => (is_paused' = prev.was_paused /\ is_playing' = is_playing)
       /\ (pc = "update" /\ pc' = "check" /\ Paused)
            => position_ms' = position_ms]_vars

\* C4: after a Stop, from any state, there is no sink, is_playing and
\* is_paused are false and position_ms is 0, until a Play succeeds.
C4_StopLeavesIdle ==
    stopped => (~HasSink /\ ~is_playing /\ ~is_paused /\ position_ms = 0
                /\ live_sinks = 0)

\* After a Stop: a Pause has been handled and the position update has run
\* at a later time.
C4_Witness == stopped /\ pc = "check" /\ cmd.type = "Pause" /\ now > 0

\* The Seek handler runs while a sink exists.
SeekStep == pc = "seek" /\ pc' # "seek" /\ HasSink

\* C5: Seek(t) handled while a sink exists leaves is_playing and is_paused
\* as they were and sets position_ms to t (in whole milliseconds); a Seek
\* handled while paused leaves position_ms at t until the resume, and the
\* position update after the resume counts on from t.
C5_SeekSetsPosition ==
    [][/\ SeekStep =>
            /\ pc' = "update"
            /\ is_playing' = is_playing /\ is_paused' = is_paused
            /\ position_ms' = SeekMs(cmd.n)
       /\ (seek_hold # None /\ ~seek_hold[1].resumed) =>
            (is_paused /\ position_ms = seek_hold[1].ms)
       /\ (seek_hold # None /\ seek_hold[1].resumed
             /\ pc = "update" /\ pc' = "check" /\ Playing) =>
            position_ms' = seek_hold[1].ms + (now - seek_hold[1].at)]_vars

\* The step of the end-of-track check that finds the sink empty and not
\* paused with a path stashed.
HandOverStep ==
    /\ pc = "check" /\ pc' = "loop"
    /\ HasSink /\ SinkEmpty /\ ~Sink.paused
    /\ preloaded_path # None

\* What the hand-over leaves: the stashed source appended to the same
\* sink, position_ms 0, is_playing true before and after.
HandedOver ==
    /\ is_playing /\ is_playing'
    /\ is_paused' = is_paused
    /\ position_ms' = 0
    /\ current_sink' = Some(Appended(Sink, preloaded_path[1]))
    /\ live_sinks' = live_sinks
    /\ playback_start' = Some(now) /\ paused_position_ms' = 0

\* C6 as stated: whenever a path has been stashed since the last
\* successful Play and the sink is observed empty and not paused, the
\* source is appended, position_ms is reset to 0 and is_playing is true
\* before and after.
C6_HandOverAlways == [][HandOverStep => HandedOver]_vars

\* C6: when a path has been stashed since the last successful Play, the
\* sink is observed empty and not paused while is_playing is true, and the
\* stashed file opens and decodes, the source is appended to the same sink,
\* position_ms is reset to 0 and is_playing is true before and after.
C6_GaplessHandOver ==
    [][(HandOverStep /\ is_playing /\ fin' # "gapless_failed")
            => HandedOver]_vars

\* A hand-over to B after time has passed.
C6_Witness ==
    /\ pc = "loop" /\ fin = "gapless"
    /\ is_playing /\ ~is_paused /\ position_ms = 0
    /\ Sink.path = "B" /\ Sink.queued = 1
    /\ now > 0

\* C7: at no point do two live sinks exist, and a successful Play handled
\* right after a successful Play leaves state Playing, position_ms 0 and
\* one live sink, the current one, holding the second path.
C7_PlayPreemptsPlay ==
    /\ live_sinks <= 1
    /\ (Handled("play_ok") /\ prev.name = "play_ok") =>
            /\ Playing /\ position_ms = 0
            /\ HasSink /\ Sink.path = cmd.path /\ ~Sink.paused
            /\ live_sinks = 1

\* A successful Play("B") handled right after a successful Play.
C7_Witness ==
    /\ Handled("play_ok") /\ prev.name = "play_ok"
    /\ cmd.path = "B" /\ live_sinks = 1

\* The position update that follows a Pause that resumed, handled right
\* after a Pause that paused a playing track.
PausePauseStep ==
    /\ pc = "update" /\ pc' = "check"
    /\ arm.name = "resumed"
    /\ prev.name = "paused" /\ ~prev.was_paused
    /\ Playing

\* C8 as stated: the position reported after the second Pause is the
\* position at the first Pause plus the time between the two Pauses.
C8_PausedTimeCounted ==
    [][PausePauseStep =>
            position_ms' = prev.offset + (arm.at - prev.at)
                           + (now - arm.at)]_vars

\* C8: the position reported after the second Pause is the position at the
\* first Pause plus the time since the second Pause; the time between the
\* two is not counted.
C8_PausedTimeNotCounted ==
    [][PausePauseStep => position_ms' = prev.offset + (now - arm.at)]_vars

\* After Pause, Pause: the track played for a millisecond before the
\* first Pause and was paused for a millisecond.
C8_Witness ==
    /\ pc = "check" /\ arm.name = "resumed"
    /\ prev.name = "paused" /\ ~prev.was_paused
    /\ Playing
    /\ prev.offset = 1 /\ prev.at = 1 /\ arm.at = 2
    /\ position_ms = 1

\* C9: position_ms never decreases in a step other than the stores of a
\* Seek, a successful Play, a Stop and a gapless hand-over.
C9_PositionMonotone ==
    [][(/\ pc \notin {"play_s3", "stop_s3", "seek"}
        /\ ~(pc = "check" /\ fin' = "gapless"))
            => position_ms' >= position_ms]_vars

\* The position has advanced after a Pause and a resume.
C9_Witness ==
    /\ pc = "check" /\ arm.name = "resumed" /\ prev.name = "paused"
    /\ Playing
    /\ position_ms = 1 /\ now = 2 /\ playback_start = Some(1)

\* C10: is_playing() returns true only if the state has been Playing at
\* some moment of the call.
C10_TrueOnlyIfPlaying == (rd_pc = "return" /\ rd_result) => rd_saw

\* C11: no command makes the render thread terminate: it never panics, and
\* it leaves its loop only when the channel is disconnected or, before the
\* loop, when the output device cannot be opened.
C11_NeverTerminatesOnCommand ==
    [][/\ pc' # "panicked"
       /\ (Terminated' /\ ~Terminated) =>
            \/ (pc = "init" /\ pc' = "init_failed")
            \/ (pc = "recv" /\ pc' = "exited")]_vars

\* The position update of an iteration that received no command.
TimeoutUpdateStep == pc = "update" /\ pc' = "check" /\ cmd = Timeout

\* C14: while the state is Playing the render thread is there to wake up
\* (it has not died on a command), and the position update of an iteration
\* that received no command stores paused_position_ms plus the time
\* elapsed since playback_start.
C14_PositionAdvancesOnTimeout ==
    [][/\ Playing => pc # "panicked"
       /\ (TimeoutUpdateStep /\ Playing) =>
            /\ playback_start # None
            /\ position_ms' = paused_position_ms
                              + (now - playback_start[1])]_vars

\* C12 as stated: no call of a submission function returns an error.
C12_NoSubmitReturnsError == sent # None => sent[1].result = "ok"

\* C12: a call of a submission function returns an error exactly when it
\* is play_file and the render thread has terminated; every other
\* submission function returns nothing but success, also then.
C12_OnlyPlayFileReturnsError ==
    sent # None =>
        (sent[1].result = "err" <=> (sent[1].type = "Play" /\ sent[1].dead))

\* seek() has returned after the thread failed to open the device.
C12_Witness ==
    /\ pc = "init_failed"
    /\ sent = Some([type |-> "Seek", result |-> "ok", dead |-> TRUE])

\* C13: the audio thread takes the commands from the head of the channel,
\* each once, and no command sent to the running thread is left in the
\* channel when the thread is gone.
C13_ConsumedOnceInOrder ==
    [][/\ (pc = "recv" /\ pc' \notin {"recv", "exited"}) =>
            \/ (queue = << >> /\ cmd' = Timeout /\ queue' = queue)
            \/ (queue # << >> /\ cmd' = Head(queue)
                  /\ queue' = Tail(queue))
       /\ (pc' \in {"panicked", "exited"}) => queue' = << >>]_vars

----------------------------------------------------------------------------
(* The equalizer *)

\* The audio thread is inside the handler of an EQ command.
EqEntryPcs ==
    {"set_eq_band", "set_eq_enabled", "set_eq_preset", "set_eq_preamp"}
EqHandlerStep == pc \in EqEntryPcs \cup {"eq_unlock", "bump"} /\ pc' # pc

\* C15: each of SetEqBand, SetEqEnabled, SetEqPreset and SetEqPreamp
\* writes the settings under the write lock, releases the lock and then
\* increments SETTINGS_VERSION by exactly one; nothing else changes the
\* settings or the version, and no step of the handler changes
\* is_playing, is_paused or the current sink.
C15_EqCommandBumpsOnce ==
    [][/\ EqHandlerStep =>
            /\ is_playing' = is_playing /\ is_paused' = is_paused
            /\ current_sink' = current_sink
            /\ pc' = CASE pc \in EqEntryPcs -> "eq_unlock"
                       [] pc = "eq_unlock" -> "bump"
                       [] pc = "bump" -> "update"
       /\ settingsVars' # settingsVars => pc \in EqEntryPcs
       /\ eq_lock' = (IF pc \in EqEntryPcs /\ pc' # pc THEN "write"
                      ELSE IF pc = "eq_unlock" /\ pc' # pc THEN "free"
                      ELSE eq_lock)
       /\ settings_version' =
            IF pc = "bump" /\ pc' # pc
            THEN settings_version + 1 ELSE settings_version
       /\ settings_version' # settings_version => eq_lock = "free"]_vars

\* A second EQ command has been handled while a track plays: the gain of
\* 20 dB for band 0 is stored clamped and the version is 2.
C15_Witness ==
    /\ Handled("set_eq_band")
    /\ settings_version = 2
    /\ eq_bands[1] = 1200 /\ eq_preset_name = "Custom"
    /\ HasSink /\ Playing

\* C16: a call of next() takes the settings read lock at most once, and
\* only when the version it loads at the start of a frame differs from
\* the stage's last-checked version; with the version unchanged the
\* sample is produced without taking the lock.
C16_LockOnlyOnVersionChange ==
    out # None =>
        /\ out[1].locks <= 1
        /\ ~out[1].differed => out[1].locks = 0

\* C17: a sample emitted while the settings say disabled is the sample
\* pulled, whatever the gains and the preamp are.
C17_DisabledPassesThrough ==
    (out # None /\ ~out[1].enabled) => out[1].value = out[1].sample

\* A sample has passed the disabled equalizer with the preset More Bass
\* loaded: two non-zero gains and a preamp of -2 dB.
C17_Witness ==
    /\ out # None
    /\ ~out[1].enabled
    /\ out[1].sample = -800 /\ out[1].value = -800
    /\ out[1].gains = << 600, 400, 0, 0, 0 >>
    /\ out[1].preamp_db = -200
    /\ HasSink /\ Sink.eq.preamp_linear # One

\* The output thread completes a call of next(): a sample is emitted.
EqPullStep ==
    /\ HasSink /\ Sink.call.pc = "pull"
    /\ current_sink' # None /\ current_sink'[1].fed = Sink.fed + 1

\* C18 as stated: a sample emitted while the settings are enabled with
\* all five gains at 0 dB passes identity coefficients and is the sample
\* pulled times the linear preamp.
C18_FlatIsPreamp ==
    [][(EqPullStep /\ eq_enabled /\ eq_bands = FlatGains) =>
          /\ Sink.eq.coeffs = [i \in Bands |-> Identity]
          /\ out'[1].value = Mul(out'[1].sample, DbToLinear(eq_preamp_db))]_vars

\* The stage has refreshed from the settings as they are: it has checked
\* the current version, and no written change awaits its version bump.
StageCurrent ==
    Sink.eq.last_checked_version = settings_version /\ pc # "bump"

\* C18 amended: once the stage has refreshed from settings that are
\* enabled with all five gains at 0 dB, its coefficients are the identity
\* and a sample is emitted as the soft clip of the sample times the
\* linear preamp and the stage's preamp is 10^(preamp_db/20).
C18_FlatIsClippedPreamp ==
    [][(EqPullStep /\ eq_enabled /\ eq_bands = FlatGains /\ StageCurrent) =>
          /\ Sink.eq.coeffs = [i \in Bands |-> Identity]
          /\ Sink.eq.preamp_linear = DbToLinear(eq_preamp_db)
          /\ out'[1].value =
                SoftClip(Mul(out'[1].sample, DbToLinear(eq_preamp_db)))
          /\ Abs(Mul(out'[1].sample, DbToLinear(eq_preamp_db))) <= One =>
                out'[1].value = Mul(out'[1].sample, DbToLinear(eq_preamp_db))]_vars

\* With flat gains and a preamp of 6 dB the refreshed stage has emitted
\* the sample -0.8 soft-clipped: -1.6 has become a value above -1.
C18_Witness ==
    /\ out # None
    /\ out[1].enabled /\ out[1].gains = FlatGains /\ out[1].preamp_db = 600
    /\ out[1].sample = -800
    /\ out[1].value = SoftClip(Mul(-800, DbToLinear(600)))
    /\ out[1].value > -One
    /\ HasSink /\ StageCurrent /\ eq_preamp_db = 600
    /\ Sink.eq.preamp_linear = DbToLinear(600)

\* C19: every Seek handled while the sink has a source leaves the stage
\* with all its filter memory zeroed and its channel counter at 0,
\* whether the inner source's seek succeeds or fails.
C19_SeekAlwaysResets ==
    [][(SeekStep /\ ~SinkEmpty /\ current_sink' # None) =>
          /\ current_sink'[1].eq.states = StatesZero
          /\ current_sink'[1].eq.current_channel = 0]_vars

\* C20: after a successful seek the stage has the memory of a stage
\* constructed at the seek with the same settings and fed the same
\* samples since (EQ filter memory, analysis filter memory, energies,
\* sample count, channel counter), and every sample it emits is the one
\* that stage emits.
C20_SeekedMatchesCold ==
    /\ (HasSink /\ Sink.cold # None) =>
          /\ Sink.eq.states = Sink.cold[1].states
          /\ Sink.eq.vis_states = Sink.cold[1].vis_states
          /\ Sink.eq.vis_energy = Sink.cold[1].vis_energy
          /\ Sink.eq.vis_sample_count = Sink.cold[1].vis_sample_count
          /\ Sink.eq.current_channel = Sink.cold[1].current_channel
    /\ (out # None /\ out[1].cold # None) => out[1].value = out[1].cold[1]

\* One sample was pulled before a successful seek and two after it, with
\* band 0 at 12 dB: the filters change the samples and hold memory.
C20_Witness ==
    /\ HasSink /\ Sink.cold # None
    /\ Sink.fed = 3 /\ Sink.eq.current_channel = 0
    /\ Sink.eq.states[1] # StatesZero[1] /\ Sink.eq.states[2] # StatesZero[2]
    /\ out # None /\ out[1].cold # None
    /\ out[1].enabled /\ out[1].gains[1] = 1200
    /\ out[1].value # out[1].sample

\* The SetEqBand handler writes the settings for a command it has handled
\* last among the EQ commands.
RepeatedBandStep ==
    /\ pc = "set_eq_band" /\ pc' = "eq_unlock"
    /\ eq_prev # None /\ eq_prev[1].cmd = cmd

\* No EQ handler is between its settings write and its version bump, the
\* stage has checked the current version and is not inside
\* maybe_update_coefficients.
StageSettled ==
    /\ HasSink
    /\ pc \notin {"eq_unlock", "bump"}
    /\ Sink.eq.last_checked_version = settings_version
    /\ Sink.call.pc # "refresh"

\* C21: a SetEqBand(band, g) handled again, with no other EQ command in
\* between, leaves every field of the settings as the first one left it,
\* and the coefficients of a stage that has refreshed are a function of
\* the settings and the sample rate alone, so they are the same as well.
C21_SetEqBandIdempotent ==
    [][/\ RepeatedBandStep => settingsVars' = settingsVars
       /\ StageSettled =>
             Sink.eq.coeffs = ComputeCoefficients(Sink.eq.sample_rate)]_vars

\* SetEqBand(0, 20 dB) has been handled twice in a row while a track
\* plays, the stage has refreshed after the second and holds a low-shelf
\* filter of 12 dB for band 0.
C21_Witness ==
    /\ eq_prev # None /\ eq_prev[1].times = 2
    /\ eq_prev[1].cmd.band = 0 /\ eq_prev[1].cmd.n = 2000
    /\ settings_version = 2 /\ eq_bands[1] = 1200
    /\ StageSettled /\ Sink.fed > 0
    /\ Sink.eq.coeffs[1] = BiquadCompute(1, 1200, SampleRate)
    /\ Sink.eq.coeffs[1] # Identity

\* The SetEqPreset handler writes the settings.
PresetStep == pc = "set_eq_preset" /\ pc' = "eq_unlock"

\* C22: from the moment the SetEqPreset handler has released the write
\* lock until the next command is received, get_eq_settings returns the
\* five gains, the preamp and the name of the command; the handler leaves
\* enabled and every band's frequency, q and filter type as they were.
C22_PresetRoundTrip ==
    [][/\ (cmd.type = "SetEqPreset" /\ pc # "set_eq_preset"
              /\ eq_lock # "write") =>
             /\ GetEqSettings.gains = cmd.bands
             /\ GetEqSettings.preamp_db = cmd.n
             /\ GetEqSettings.preset_name = cmd.path
       /\ PresetStep =>
             /\ eq_enabled' = eq_enabled
             /\ GetEqSettings.frequency = BandFrequency
             /\ GetEqSettings.q = BandQ
             /\ GetEqSettings.filter_type = BandType]_vars

\* The preset More Bass has been handled after the equalizer was
\* disabled: a snapshot gives its gains, preamp and name, and disabled.
C22_Witness ==
    /\ Handled("set_eq_preset")
    /\ cmd.path = "More Bass"
    /\ settings_version = 2
    /\ GetEqSettings.gains = << 600, 400, 0, 0, 0 >>
    /\ GetEqSettings.preamp_db = -200
    /\ GetEqSettings.preset_name = "More Bass"
    /\ ~GetEqSettings.enabled

\* C23: the soft clip returns a value in [-1, 1], 1.0 included, as it
\* is, and takes 2.0 by 1 - 0.5 exp(1 - v) to a value strictly above 1.0
\* (and -2.0, mirrored, strictly below -1.0).
C23_SoftClipAboveOne ==
    (clip # None /\ clip[1].output # None) =>
        LET v == clip[1].value
            output == clip[1].output[1]
        IN /\ Abs(v) <= One => output = v
           /\ v = 2 * One =>
                 /\ output = One - RoundDiv(Exp(One - v), 2)
                 /\ output > One
           /\ v = -2 * One =>
                 /\ output = -One + RoundDiv(Exp(One + v), 2)
                 /\ output < -One

\* C24: with the lock of the settings poisoned nothing panics: a Play
\* constructs its stage, an EQ handler skips its write, a refresh leaves
\* coefficients and preamp as they were, and a sample emitted while the
\* settings say enabled has passed the preamp and the filters the stage
\* holds.
C24_LockFailureHarmless ==
    [][eq_lock = "poisoned" =>
          /\ pc' # "panicked"
          /\ settingsVars' = settingsVars
          /\ (HasSink /\ Sink.call.pc = "refresh" /\ current_sink' # None) =>
                /\ current_sink'[1].eq.coeffs = Sink.eq.coeffs
                /\ current_sink'[1].eq.preamp_linear = Sink.eq.preamp_linear
          /\ (EqPullStep /\ eq_enabled) =>
                out'[1].value =
                    EmitFiltered(Sink.eq, Sink.eq.current_channel,
                                 out'[1].sample).value]_vars

\* C25: a sample of a channel other than 0 leaves the analysis state and
\* VIS_LEVELS alone; a sample of channel 0 is counted, and the one that
\* brings the count to vis_window_size publishes ten levels, each within
\* [0, 1], and leaves every energy and the count at 0, while the others
\* publish nothing; what the analysis leaves and publishes is the same
\* with the enabled flag read the other way.
C25_VisualizerWindow ==
    [][EqPullStep =>
          LET old == Sink.eq
              new == current_sink'[1].eq
              full == old.vis_sample_count + 1 >= old.vis_window_size
              other == Pulled(old, out'[1].sample, ~eq_enabled)
          IN /\ old.current_channel # 0 =>
                   /\ new.vis_states = old.vis_states
                   /\ new.vis_energy = old.vis_energy
                   /\ new.vis_sample_count = old.vis_sample_count
                   /\ vis_levels' = vis_levels
             /\ (old.current_channel = 0 /\ ~full) =>
                   /\ new.vis_sample_count = old.vis_sample_count + 1
                   /\ vis_levels' = vis_levels
             /\ (old.current_channel = 0 /\ full) =>
                   /\ new.vis_sample_count = 0
                   /\ new.vis_energy = VisEnergyZero
                   /\ DOMAIN vis_levels' = 1..10
                   /\ \A i \in 1..10 : vis_levels'[i] \in 0..One
             /\ new.vis_states = other.stage.vis_states
             /\ new.vis_energy = other.stage.vis_energy
             /\ new.vis_sample_count = other.stage.vis_sample_count
             /\ other.levels \in {None, Some(vis_levels')}
             /\ other.levels = None => vis_levels' = vis_levels]_vars

\* Five samples of the stereo file C, whose window is two samples, have
\* passed a disabled equalizer: the third has published levels, not all
\* of them 0 or 1, and the fifth is the first of the next window.
C25_Witness ==
    /\ HasSink /\ Sink.path = "C" /\ Sink.fed = 5
    /\ Sink.eq.channels = 2 /\ Sink.eq.vis_window_size = 2
    /\ Sink.eq.vis_sample_count = 1
    /\ Sink.eq.vis_energy # VisEnergyZero
    /\ \E i \in VisBands : vis_levels[i] \notin {0, One}
    /\ out # None /\ ~out[1].enabled

\* C26: the handlers of SetVolume and SetSpeed leave is_playing,
\* is_paused, position_ms, whether there is a sink, the stashed preload
\* path, the paused offset and the play-start instant as they were; they
\* change the volume or the speed, kept and passed to the sink if any.
VolumeOrSpeedStep == pc \in {"set_volume", "set_speed"} /\ pc' = "update"

C26_VolumeSpeedNoTransition ==
    [][VolumeOrSpeedStep =>
          /\ is_playing' = is_playing
          /\ is_paused' = is_paused
          /\ position_ms' = position_ms
          /\ (current_sink' = None) <=> (current_sink = None)
          /\ preloaded_path' = preloaded_path
          /\ paused_position_ms' = paused_position_ms
          /\ playback_start' = playback_start
          /\ HasSink =>
                current_sink' =
                    Some([Sink EXCEPT !.volume = current_volume',
                                      !.speed = current_speed'])]_vars

\* SetVolume has been handled in state Paused, a sink present with the new
\* volume, a preload stashed and time counted before the pause.
C26_Witness ==
    /\ Handled("set_volume")
    /\ Paused /\ HasSink /\ Sink.volume = current_volume
    /\ preloaded_path # None
    /\ paused_position_ms > 0

\* C31: when a stage that emitted its last sample unfiltered, the
\* equalizer being disabled, emits a filtered one, the memory of all its
\* filters is zero as the filters take the sample.
C31_MemoryZeroAfterDisabled ==
    [][(EqPullStep /\ Sink.fed > 0
            /\ out # None /\ ~out[1].enabled /\ out'[1].enabled) =>
          Sink.eq.states = StatesZero]_vars

\* What the stage caches is what the settings give.
Coherent ==
    /\ Sink.eq.coeffs = ComputeCoefficients(Sink.eq.sample_rate)
    /\ Sink.eq.preamp_linear = DbToLinear(eq_preamp_db)

\* C30: in every interleaving of the audio thread's writes and version
\* bumps with the output thread, a call of next() at channel 0
\* leaves last_checked_version at SETTINGS_VERSION and goes on to
\* recompute under the read lock exactly when the two differed, and
\* whenever no command is between its write and its bump and no
\* recomputation is pending, a stage whose last_checked_version is
\* SETTINGS_VERSION holds the coefficients and the preamp of the current
\* settings.
C30_VersionCacheCoherent ==
    /\ [](StageSettled => Coherent)
    /\ [][(HasSink /\ Sink.call.pc = "idle" /\ Sink.eq.current_channel = 0
              /\ current_sink' # None /\ current_sink'[1].call.pc # "idle") =>
             /\ current_sink'[1].eq.last_checked_version = settings_version
             /\ current_sink'[1].call.pc = "refresh"
                    <=> Sink.eq.last_checked_version # settings_version]_vars

\* Samples have passed the stage, an EQ command that changed the preamp
\* or a gain has been handled to its end, and the call of next() that
\* followed has taken the read lock and recomputed.
C30_Witness ==
    /\ StageSettled /\ Sink.fed > 0
    /\ settings_version > 0
    /\ Sink.call.pc = "pull" /\ Sink.call.locks = 1
    /\ eq_preamp_db # 0 /\ eq_bands # FlatGains
    /\ Sink.eq.preamp_linear # One
    /\ Coherent

----------------------------------------------------------------------------
(* The state machine, continued *)

\* C32: whenever the audio thread is about to receive and is_playing is
\* true, the thread holds a sink.
C32_PlayingHasSink == (pc = "recv" /\ is_playing) => HasSink

\* C33: whenever the audio thread is about to receive, is_paused is the
\* paused flag of the sink it holds, and false when it holds none; Pause
\* handled without a sink changes neither the flags, nor the position,
\* nor the thread's bookkeeping.
FlagsAgree ==
    pc = "recv" => is_paused = (IF HasSink THEN Sink.paused ELSE FALSE)
PauseNoEffect ==
    (pc = "pause" /\ ~HasSink /\ pc' # "pause") =>
        UNCHANGED << current_sink, playback_start, paused_position_ms,
                     preloaded_path, is_playing, is_paused, position_ms >>

C33_PausedFlagAgrees == []FlagsAgree /\ [][PauseNoEffect]_vars

\* The step of the end-of-track check.
CheckStep == pc = "check" /\ pc' = "loop"

\* C34: when the end-of-track check finds the sink empty and not paused
\* with is_playing true, and appends no source (nothing is stashed, or the
\* stashed file does not open or decode), it leaves is_playing false, no
\* stash, the sink, is_paused and position_ms as they were; on a paused
\* sink the check changes nothing.
C34_EndWithoutPreload ==
    [][/\ (CheckStep /\ Finished /\ fin' # "gapless") =>
             /\ ~is_playing'
             /\ preloaded_path' = None
             /\ fin' = IF preloaded_path = None THEN "ended"
                       ELSE "gapless_failed"
             /\ UNCHANGED << current_sink, live_sinks, is_paused,
                             position_ms, playback_start,
                             paused_position_ms >>
       /\ (CheckStep /\ HasSink /\ Sink.paused) =>
             UNCHANGED << current_sink, preloaded_path, is_playing,
                          is_paused, position_ms, playback_start,
                          paused_position_ms, fin >>]_vars

\* The track has ended after time has passed, the stashed file has failed
\* to open: the sink is kept, empty, and the position stands.
C34_Witness ==
    /\ pc = "loop" /\ fin = "gapless_failed"
    /\ ~is_playing /\ ~is_paused /\ preloaded_path = None
    /\ HasSink /\ SinkEmpty
    /\ position_ms > 0

\* C35: a gapless transition takes a stashed path, appends that path and
\* leaves no stash; PreloadNext leaves its own path stashed whatever was
\* stashed before; a successful Play leaves no stash; and no other step
\* puts a path into the stash, so that a stash makes at most one
\* transition and none at the end of a file played after it was stashed.
C35_StashUsedOnce ==
    [][/\ (CheckStep /\ fin' = "gapless") =>
             /\ preloaded_path # None
             /\ preloaded_path' = None
             /\ current_sink' = Some(Appended(Sink, preloaded_path[1]))
       /\ (CheckStep /\ current_sink' # current_sink) => fin' = "gapless"
       /\ (pc = "preload" /\ pc' # "preload") =>
             preloaded_path' = Some(cmd.path)
       /\ (pc = "play_open" /\ pc' = "play_s1") => preloaded_path' = None
       /\ (preloaded_path' # None /\ preloaded_path' # preloaded_path) =>
             pc = "preload"]_vars

\* PreloadNext(A) has been handled on a sink that had played to its end,
\* and the check of the same iteration has made the transition: A is
\* appended and nothing is stashed.
C35_Witness ==
    /\ pc = "loop" /\ fin = "gapless"
    /\ arm.name = "preloaded" /\ cmd.path = "A"
    /\ preloaded_path = None
    /\ HasSink /\ Sink.path = "A" /\ Sink.queued = 1

----------------------------------------------------------------------------
(* The database *)

\* A step of the function fn of the database.
DbStep(fn) == db_call' # None /\ db_call'[1].fn = fn
PathRows(db, file_path) ==
    SelectSeq(db.tracks, LAMBDA row : row.file_path = file_path)

\* C27: insert_track returns an id under which get_track_by_id finds a
\* track with the title, the artist and the album inserted; when a row of
\* the file_path exists, the id is that row's and the table has the rows
\* it had, one per file_path, and otherwise one more row under a new id.
C27_InsertThenGet ==
    [][DbStep("insert_track") =>
          LET track == db_call'[1].args
              result == db_call'[1].result
              got == GetTrackById(database', result.value)
              had == PathRows(database, track.file_path)
          IN /\ result.ok /\ got.ok
             /\ got.value.file_path = track.file_path
             /\ got.value.title = track.title
             /\ got.value.artist = track.artist
             /\ got.value.album = track.album
             /\ Len(PathRows(database', track.file_path)) = 1
             /\ IF had # << >>
                THEN /\ result.value = had[1].id
                     /\ Len(database'.tracks) = Len(database.tracks)
                ELSE /\ ~GetTrackById(database, result.value).ok
                     /\ Len(database'.tracks) = Len(database.tracks) + 1
             /\ \A id \in TrackIds \ {result.value} :
                    GetTrackById(database', id) = GetTrackById(database, id)]_vars

\* The track of path A has been inserted a second time next to that of
\* path B: it has the id it got first and the columns inserted last.
C27_Witness ==
    /\ db_call # None /\ db_call[1].fn = "insert_track"
    /\ db_call[1].args.title = "t2"
    /\ db_call[1].result = Ok(1)
    /\ Len(database.tracks) = 2
    /\ database.track_seq = 3
    /\ GetTrackById(database, 1).value.title = "t2"

\* C28: after add_track_to_playlist(p, t, None) has returned Ok, the
\* tracks of p are those it had followed by t when t was not among them,
\* and the database is as it was when t was.
C28_AddAppendsOnce ==
    [][(DbStep("add_track_to_playlist") /\ db_call'[1].result.ok
            /\ db_call'[1].args[3] = None) =>
          LET p == db_call'[1].args[1]
              t == db_call'[1].args[2]
              before == GetPlaylistTracks(database, p)
          IN IF \E i \in DOMAIN before : before[i].id = t
             THEN database' = database
             ELSE LET after == GetPlaylistTracks(database', p)
                  IN /\ Len(after) = Len(before) + 1
                     /\ after[Len(after)] = GetTrackById(database, t).value
                     /\ {after[i] : i \in 1..Len(before)}
                            = {before[i] : i \in DOMAIN before}]_vars

\* The set of the playlists that get_playlists returns.
Listed(db) ==
    LET rows == GetPlaylists(db)
    IN {[id |-> rows[i].id, name |-> rows[i].name] : i \in DOMAIN rows}

\* C29: get_playlists returns every playlist once; create_playlist adds
\* the playlist of the id it returns, which is a new one, delete_playlist
\* takes away the playlist of its id, and no other function changes what
\* get_playlists returns but for the track counts; after
\* delete_playlist(id) no membership of id is left, and the tracks and
\* every other playlist with its tracks are as they were.
C29_PlaylistsCreatedNotDeleted ==
    [][db_call' # None =>
          LET fn == db_call'[1].fn
              args == db_call'[1].args
          IN /\ Len(GetPlaylists(database')) = Cardinality(Listed(database'))
             /\ Len(GetPlaylists(database')) = Len(database'.playlists)
             /\ fn = "create_playlist" =>
                   /\ db_call'[1].result.ok
                   /\ \A row \in Listed(database) :
                          row.id # db_call'[1].result.value
                   /\ Listed(database') =
                          Listed(database) \cup
                              {[id |-> db_call'[1].result.value,
                                name |-> args]}
             /\ fn = "delete_playlist" =>
                   /\ Listed(database') =
                          {row \in Listed(database) : row.id # args}
                   /\ InPlaylist(database', args) = {}
                   /\ GetPlaylistTracks(database', args) = << >>
                   /\ database'.tracks = database.tracks
                   /\ \A q \in PlaylistIds \ {args} :
                          /\ InPlaylist(database', q) = InPlaylist(database, q)
                          /\ GetPlaylistTracks(database', q)
                                 = GetPlaylistTracks(database, q)
                   /\ \A i \in DOMAIN GetPlaylists(database') :
                          \E j \in DOMAIN GetPlaylists(database) :
                              GetPlaylists(database')[i]
                                  = GetPlaylists(database)[j]
             /\ fn \notin {"create_playlist", "delete_playlist"} =>
                   Listed(database') = Listed(database)]_vars

\* Playlist 1 has been deleted after both were created: get_playlists
\* returns playlist 2 alone, with the two tracks it holds.
C29_Witness ==
    /\ db_call # None /\ db_call[1].fn = "delete_playlist"
    /\ db_call[1].args = 1
    /\ database.playlist_seq = 2
    /\ Len(GetPlaylists(database)) = 1
    /\ GetPlaylists(database)[1].id = 2
    /\ GetPlaylists(database)[1].track_count = 2
    /\ Len(GetPlaylistTracks(database, 2)) = 2

----------------------------------------------------------------------------
(* The library scan *)

\* The caller is inside scan_with_progress.
InScan(c) == scanner[c].pc \in {"discover", "existing", "loop"}

\* C36: at most one library scan runs at any time: no two callers hold
\* scan_running together, so no two are inside scan_with_progress together,
\* and a request made while a caller holds it returns without scanning.
C36_OneScanAtATime ==
    /\ \A c, d \in ScanCallers : (Holding(c) /\ Holding(d)) => c = d
    /\ \A c, d \in ScanCallers : (InScan(c) /\ InScan(d)) => c = d
    /\ \A c \in ScanCallers : Holding(c) => scan_running

\* A request is turned away while another caller is inside
\* scan_with_progress.
C36_Witness ==
    \E c, d \in ScanCallers :
        /\ InScan(c)
        /\ scanner[d].pc = "returned"
        /\ scanner[d].result = Some(ScanErr)

\* The scan of c has returned a ScanResult.
ScanReturned(c) == scanner[c].result # None /\ scanner[c].result[1].ok

\* C37: a cancel_scan issued while a caller holds scan_running and its
\* scan has a file left to examine makes that scan return with
\* cancelled = true, whatever phase the cancel arrived in.
C37_CancelStopsScan ==
    \A c \in ScanCallers :
        (ScanReturned(c) /\ scanner[c].walk # << >>
            /\ scanner[c].cancel_at # "none")
        => scanner[c].result[1].cancelled

\* The same for a cancel that arrives once scan_with_progress has found
\* a file, during the discovery or the loop.
CancelAfterFirstFile ==
    \A c \in ScanCallers :
        (ScanReturned(c) /\ scanner[c].files # << >>
            /\ scanner[c].cancel_at \in {"existing", "loop"})
        => scanner[c].result[1].cancelled

\* C38: scan_running is released on every exit path: whenever it is true
\* it is false again later, whether the holder's scan succeeds, is
\* cancelled, finds no enabled folder or meets a database or lock error.
C38_ScanRunningReleased == scan_running ~> ~scan_running

\* A scan whose scan_with_progress returned the error of the poisoned
\* mutex has released scan_running.
C38_Witness ==
    /\ ~scan_running
    /\ db_poisoned
    /\ \E c \in ScanCallers :
           /\ scanner[c].pc = "returned"
           /\ scanner[c].walk # << >>
           /\ scanner[c].result = Some(ScanErr)

\* The number of files counted in a category.
Tallied(r, category) ==
    Cardinality({i \in DOMAIN r.tally : r.tally[i] = category})

\* C39: at every point of scan_with_progress the three counters add up to
\* the number of files processed, which is at most total_files; each
\* processed file is counted in exactly one of them; a scan that returns
\* with cancelled = false has counted every file; a scan that returns with
\* cancelled = true has the tracks it batched in the database.
C39_ScanAccounting ==
    \A c \in ScanCallers :
        LET r == scanner[c]
        IN /\ r.scanned_count + r.skipped_count + r.error_count = r.index
           /\ r.index <= Len(r.files)
           /\ Len(r.tally) = r.index
           /\ r.scanned_count = Tallied(r, "scanned")
           /\ r.skipped_count = Tallied(r, "skipped")
           /\ r.error_count = Tallied(r, "error")
           /\ (ScanReturned(c) /\ ~r.result[1].cancelled)
                => r.result[1].scanned + r.result[1].skipped
                    + r.result[1].errors = r.result[1].total_files
           /\ (ScanReturned(c) /\ r.result[1].cancelled)
                => \A i \in DOMAIN r.tally :
                       r.tally[i] = "scanned"
                       => r.files[i] \in ExistingPaths(database)

\* A cancelled scan has returned with a track in its batch whose file the
\* database did not hold before, and with a file left.
C39_Witness ==
    \E c \in ScanCallers :
        LET r == scanner[c]
        IN /\ ScanReturned(c)
           /\ r.result[1].cancelled
           /\ r.batch # << >>
           /\ r.batch[1].file_path \notin r.existing_files
           /\ r.result[1].scanned + r.result[1].skipped + r.result[1].errors
                < r.result[1].total_files

----------------------------------------------------------------------------
(* The media controls *)

\* The handler of the Pause a toggle sent returns.
MediaPauseStep == pc = "pause" /\ cmd = MediaPause /\ pc' = "update"

\* C40: when the Pause sent by pause_playback or by the media-control
\* event handler has been handled, the audio thread is playing exactly if
\* the toggle reports Playing to the media controls.
C40_ReportedStateIsActual ==
    [][(MediaPauseStep /\ media # None /\ media[1].stage = "sent")
        => (media[1].new_is_playing <=> Playing')]_vars

\* The same for a toggle made with a sink and handled with nothing else
\* between its read and its Pause.
ToggleWithSinkAlone ==
    [][(MediaPauseStep /\ media # None /\ media[1].stage = "sent"
            /\ HasSink /\ media[1].was_playing = Playing
            /\ (Playing \/ Paused))
        => (media[1].new_is_playing <=> Playing')]_vars

=============================================================================
